---- MODULE Spec2Model ----
(***************************************************************************)
(* TwoD: a two-dimensional grid library (grid.h, primitives.h, bounds.h,   *)
(* coordinates.h, tiled_grid.h).                                           *)
(*                                                                         *)
(* Three state machines share this module:                                 *)
(*   SpecOwned  owned grids (Grid<CellT>) over a heap of allocator blocks  *)
(*   SpecView   views (View<ParentT, BoundsT>) over a parent grid          *)
(*   SpecTiled  the lazily tiled grid (FixedTiledGrid)                     *)
(* A coordinate (x, y) is the tuple <<x, y>>; the null pointer is 0.       *)
(***************************************************************************)
EXTENDS Integers, Naturals, Sequences, FiniteSets, Bags, TLC

\* ------------------------------------------------------------------ bounds
\* Largest extents of an owned grid: x in 0..MaxExtentX, y in 0..MaxExtentY.
MaxExtentX == 2

MaxExtentY == 1

\* Number of allocate() calls a run may make.
MaxBlocks == 3

\* Origins of bounds objects lie in -MaxOrigin..MaxOrigin on both axes.
MaxOrigin == 1

\* Number of caller-owned buffers the mapped grids can be bound to.
MaxBuffers == 2

\* Extents of the parent grid the views are taken over.
ParentExtentX == 3

ParentExtentY == 2

\* Largest Height (x) and Width (y) of a tiled grid.
MaxTiledX == 3

MaxTiledY == 2

\* Extents of the grid flood_fill runs on, whole or through a view.
FloodExtentX == 2

FloodExtentY == 2

\* Largest cell value and seed value of a flood fill.
FloodMaxValue == 2

\* flood_fill is followed until some cell has been written this many times.
MaxWrites == 2

\* A loop over an iterator is followed for this many rounds beyond the area of
\* what it iterates.
MaxOverrun == 2

\* Cell values. The operations only copy cells and compare them for equality,
\* so two values tell a kept cell from an overwritten one.
Values == {0, 1}

\* ------------------------------------------------------------- coordinates
\* Coordinates<int>: x is component 1, y is component 2.
X(c) == c[1]

Y(c) == c[2]

Zero == <<0, 0>>

\* Coordinates::operator+
Plus(a, b) == <<X(a) + X(b), Y(a) + Y(b)>>

\* Coordinates::operator-
Minus(a, b) == <<X(a) - X(b), Y(a) - Y(b)>>

\* Coordinates::area
area(c) == X(c) * Y(c)

\* Coordinates::isZero
isZero(c) == c = Zero

\* Coordinates::all_ge
all_ge(a, b) == X(a) >= X(b) /\ Y(a) >= Y(b)

\* Coordinates::all_gt
all_gt(a, b) == X(a) > X(b) /\ Y(a) > Y(b)

\* Coordinates::all_le
all_le(a, b) == X(a) <= X(b) /\ Y(a) <= Y(b)

\* Coordinates::operator==
coords_eq(a, b) == X(a) = X(b) /\ Y(a) = Y(b)

\* operator< of std::tuple: the first position, from k on, where the tuples
\* differ decides; tuples that agree everywhere are not less.
RECURSIVE tuple_less(_, _, _)
tuple_less(s, t, k) ==
  IF k > Len(s)
    THEN FALSE
    ELSE IF s[k] < t[k]
      THEN TRUE
      ELSE IF t[k] < s[k] THEN FALSE ELSE tuple_less(s, t, k + 1)

\* A less-than that asks for both components to be less.
coords_less_on_both(a, b) == X(a) < X(b) /\ Y(a) < Y(b)

\* Coordinates::operator<: std::tie(x, y) < std::tie(other.x, other.y)
coords_less(a, b) == tuple_less(<<X(a), Y(a)>>, <<X(b), Y(b)>>, 1)

\* Mutant of all_lt: the tuple order of Coordinates::operator<.
all_lt_lexicographic(a, b) == X(a) < X(b) \/ (X(a) = X(b) /\ Y(a) < Y(b))

\* Coordinates::all_lt
all_lt(a, b) == X(a) < X(b) /\ Y(a) < Y(b)

\* A linear index that strides by the other extent.
toLinearIndex_strides_by_y(extents, pt) == (Y(extents) * Y(pt)) + X(pt)

\* RawAccessBase::toLinearIndex / ContainerAccessBase::toLinearIndex
toLinearIndex(extents, pt) == (X(extents) * Y(pt)) + X(pt)

\* BoundsBase::within
within(origin, extents, pt) == all_ge(pt, origin) /\ all_lt(pt, Plus(origin, extents))

\* BoundsBase::empty
empty(extents) == extents = Zero

\* The indices of [0, extents).
IndexSpace(extents) == {p \in (0..(X(extents) - 1)) \X (0..(Y(extents) - 1)) : TRUE}

\* ------------------------------------------------------------ owned grids
VARIABLES
  grid,      \* owned grids: name -> [alive, data (block id, 0 = nullptr), ext]
  heap,      \* block id -> [st: "unused" | "live" | "freed", cells: sequence]
  nAlloc,    \* number of blocks handed out by the allocator so far
  badFree,   \* a block was deallocated that was not live
  nullOnZero,\* whether this build's allocate(0) returns nullptr (unspecified)
  last       \* the last operation: [op, dst, src, e]

\* ------------------------------------------------------------------ views
VARIABLES
  pcells,    \* storage of the parent grid g: linear index -> cell value
  view,      \* bounds [origin, ext] of the view v taken over g
  vfault,    \* an access left the parent's storage (undefined behaviour)
  vlast      \* the last view operation: [op, p, x, sub, src]

\* ------------------------------------------------------------ tiled grid
VARIABLES
  tcfg,      \* template arguments [H, W, TH, TW] of the FixedTiledGrid
  tdefault,  \* default_value_
  tiles,     \* tiles_: linear slot -> [has, cells, origin] (has = data is set)
  made,      \* the slots whose tile was materialized by make_unique
  tfault,    \* an access left tiles_ or a tile's cells (undefined behaviour)
  tlast      \* the last tiled-grid operation: [op, p, x, vals]

\* ---------------------------------------------------------- mapped grids
VARIABLES
  mem,       \* caller-owned buffers: buffer id -> sequence of cells
  mgrid,     \* mapped grids: name -> [alive, data (buffer id), ext]
  mlast      \* the last mapped-grid operation: [op, dst, src, pre (dst before it)]

\* ------------------------------------------------------------- flood fill
VARIABLES
  fext,      \* extents of the grid that owns the cells
  fcells,    \* its storage: linear index -> cell value
  fbounds,   \* bounds [origin, ext] of the grid or view handed to flood_fill
  fcfg,      \* the call: [validator, updater, ties, overload]
  seeds,     \* the priority queue, a bag of seeds [value, position]
  fpc,       \* "call" before the call, "loop" inside the while loop, "done" after
  ffault,    \* an access left the storage (undefined behaviour)
  fstart,    \* the cells at the time of the call
  fwrites,   \* linear index -> number of writes by flood_fill (counted up to 2)
  flast      \* [value, position] of the seed popped last; seeded: the queue
             \* the loop started from held a seed inside the grid

\* ---------------------------------------------------------- bounds objects
VARIABLES
  bnd,       \* a bounds object: [kind, origin, ext]
  bres       \* the last call on it: [op, p, value]

\* ---------------------------------------------------------------- iteration
VARIABLES
  itgt,      \* what is iterated: [kind ("bounds" or "view"), origin, ext]
  iter,      \* the iterator: [order ("col" or "row"), pt]
  iyield,    \* the indices the loop has dereferenced so far, in order
  ipc,       \* "loop" while the for loop runs, "end" once it has left
  ifault     \* a dereference left the storage (undefined behaviour)

GridIds == {"a", "b"}

BlockIds == 1..MaxBlocks

ExtentsDomain == (0..MaxExtentX) \X (0..MaxExtentY)

ownedVars == <<grid, heap, nAlloc, badFree, nullOnZero, last>>

viewVars == <<pcells, view, vfault, vlast>>

tiledVars == <<tcfg, tdefault, tiles, made, tfault, tlast>>

mappedVars == <<mem, mgrid, mlast>>

floodVars == <<fext, fcells, fbounds, fcfg, seeds, fpc, ffault, fstart, fwrites, flast>>

\* The mapped grids and the flood fill, left alone by the operations above.
boundsVars == <<bnd, bres>>

iterVars == <<itgt, iter, iyield, ipc, ifault>>

restVars == <<mappedVars, floodVars, boundsVars, iterVars>>

vars == <<grid, heap, nAlloc, badFree, nullOnZero, last, pcells, view, vfault, vlast,
          tcfg, tdefault, tiles, made, tfault, tlast, mem, mgrid, mlast,
          fext, fcells, fbounds, fcfg, seeds, fpc, ffault, fstart, fwrites, flast,
          bnd, bres, itgt, iter, iyield, ipc, ifault>>

\* The owned-grid state as one value, threaded through the operations.
World == [grid |-> grid, heap |-> heap, nAlloc |-> nAlloc, badFree |-> badFree]

\* A sequence of n copies of v.
Uniform(n, v) == [i \in 1..n |-> v]

\* AllocatorT::allocate(n). The block is fresh; for n = 0 the standard leaves
\* the returned pointer unspecified: nullIfZero selects the nullptr outcome.
\* Yields <<world, pointer>>; the cells are constructed by the caller.
allocate(W, n, nullIfZero) ==
  IF n = 0 /\ nullIfZero
    THEN <<W, 0>>
    ELSE LET b == W.nAlloc + 1
         IN  <<[W EXCEPT !.nAlloc = b,
                         !.heap[b] = [st |-> "live", cells |-> Uniform(n, 0)]],
               b>>

\* AllocatorT::deallocate(p, n)
deallocate(W, b) ==
  IF W.heap[b].st = "live"
    THEN [W EXCEPT !.heap[b] = [st |-> "freed", cells |-> <<>>]]
    ELSE [W EXCEPT !.badFree = TRUE]

\* Grid::construct(cell_args...): every cell of [begin, end) is constructed
\* from v (value-initialised, 0, when no argument is given).
construct(W, g, v) ==
  LET d == W.grid[g].data
  IN  IF d = 0 THEN W
      ELSE [W EXCEPT !.heap[d].cells = Uniform(area(W.grid[g].ext), v)]

\* Grid::clear
clear(W, g) ==
  IF W.grid[g].data = 0
    THEN W
    ELSE LET W1 == deallocate(W, W.grid[g].data)
         IN  [W1 EXCEPT !.grid[g].data = 0, !.grid[g].ext = Zero]

\* The allocating branch shared by both resize overloads.
reallocate(W, g, extents, v, nullIfZero) ==
  LET W1 == clear(W, g)
      W2 == [W1 EXCEPT !.grid[g].ext = extents]
      A  == allocate(W2, area(extents), nullIfZero)
      W3 == [A[1] EXCEPT !.grid[g].data = A[2]]
  IN  construct(W3, g, v)

\* Grid::resize(extents, value)
resize_value(W, g, extents, value, nullIfZero) ==
  IF isZero(extents)
    THEN clear(W, g)
    ELSE IF W.grid[g].ext = extents
      THEN construct(W, g, value)
      ELSE reallocate(W, g, extents, value, nullIfZero)

\* Mutant of resize: the equal-extents early return is missing.
resize_always_reallocates(W, g, extents, nullIfZero) ==
  IF isZero(extents)
    THEN clear(W, g)
    ELSE reallocate(W, g, extents, 0, nullIfZero)

\* Grid::resize(extents)
resize(W, g, extents, nullIfZero) ==
  IF isZero(extents)
    THEN clear(W, g)
    ELSE IF W.grid[g].ext = extents
      THEN W
      ELSE reallocate(W, g, extents, 0, nullIfZero)

\* Mutant of move_assign: the source keeps its pointer and extents (a copy of
\* the handle instead of a transfer).
move_assign_keeps_source(W, dst, src) ==
  LET W1 == [W  EXCEPT !.grid[dst].ext = W.grid[src].ext]
  IN  [W1 EXCEPT !.grid[dst].data = W1.grid[src].data]

\* Mutant of move_assign: the extents of the source are not reset.
move_assign_keeps_extents(W, dst, src) ==
  LET W1 == [W  EXCEPT !.grid[dst].ext = W.grid[src].ext]
      W2 == [W1 EXCEPT !.grid[dst].data = W1.grid[src].data]
  IN  [W2 EXCEPT !.grid[src].data = 0]

\* Grid::operator=(Grid&&), statement by statement (dst and src may coincide).
move_assign(W, dst, src) ==
  LET W1 == [W  EXCEPT !.grid[dst].ext = W.grid[src].ext]
      W2 == [W1 EXCEPT !.grid[dst].data = W1.grid[src].data]
      W3 == [W2 EXCEPT !.grid[src].data = 0]
  IN  [W3 EXCEPT !.grid[src].ext = Zero]

\* std::copy(other.begin(), other.end(), Grid::begin()) over raw storage
copy_cells(W, dst, src) ==
  LET s == W.grid[src].data
      d == W.grid[dst].data
  IN  IF s = 0 \/ d = 0 THEN W
      ELSE [W EXCEPT !.heap[d].cells =
              [i \in 1..Len(W.heap[d].cells) |->
                 IF i <= Len(W.heap[s].cells) THEN W.heap[s].cells[i]
                                               ELSE W.heap[d].cells[i]]]

\* Grid::operator=(const Grid&)
copy_assign(W, dst, src, nullIfZero) ==
  IF W.grid[src].data = 0 \/ isZero(W.grid[src].ext)
    THEN clear(W, dst)
    ELSE copy_cells(resize(W, dst, W.grid[src].ext, nullIfZero), dst, src)

\* Mutant of swap_resize_impl: the extents of this grid are not replaced.
swap_resize_impl_one_way(W, this, other) ==
  [W EXCEPT !.grid[other].ext = W.grid[this].ext]

\* Grid::swap_resize_impl
swap_resize_impl(W, this, other) ==
  LET tmp_extents == W.grid[other].ext
      W1 == [W EXCEPT !.grid[other].ext = W.grid[this].ext]
  IN  [W1 EXCEPT !.grid[this].ext = tmp_extents]

\* RawAccessBase::swap
swap(W, this, other) ==
  LET other_data == W.grid[other].data
      this_data  == W.grid[this].data
      W1 == swap_resize_impl(W, this, other)
      W2 == [W1 EXCEPT !.grid[this].data = other_data]
  IN  [W2 EXCEPT !.grid[other].data = this_data]

\* Grid::Grid(): no storage, zero extents.
default_grid == [alive |-> TRUE, data |-> 0, ext |-> Zero]

\* Grid::Grid(extents) and Grid::Grid(extents, val)
construct_sized(W, g, extents, v, nullIfZero) ==
  LET A  == allocate(W, area(extents), nullIfZero)
      W1 == [A[1] EXCEPT !.grid[g] = [alive |-> TRUE, data |-> A[2], ext |-> extents]]
  IN  construct(W1, g, v)

\* Grid::Grid(const Grid&)
construct_copy(W, g, other, nullIfZero) ==
  copy_assign([W EXCEPT !.grid[g] = default_grid], g, other, nullIfZero)

\* Grid::Grid(Grid&&)
construct_move(W, g, other) ==
  move_assign([W EXCEPT !.grid[g] = default_grid], g, other)

\* Grid::~Grid
destroy(W, g) ==
  [clear(W, g) EXCEPT !.grid[g] = [alive |-> FALSE, data |-> 0, ext |-> Zero]]

\* GridBase::operator[] on an owned grid (origin (0,0)) followed by a store.
write_cell(W, g, pt, v) ==
  LET d == W.grid[g].data
  IN  [W EXCEPT !.heap[d].cells[toLinearIndex(W.grid[g].ext, Plus(pt, Zero)) + 1] = v]

\* GridBase::operator[] on an owned grid, read.
read_cell(W, g, pt) ==
  W.heap[W.grid[g].data].cells[toLinearIndex(W.grid[g].ext, Plus(pt, Zero)) + 1]

\* The cells of [begin(), end()) of an owned grid: area(extents) cells from data_.
range_cells(W, g) ==
  IF W.grid[g].data = 0 THEN <<>> ELSE W.heap[W.grid[g].data].cells

\* A comparison that skips the extents and compares the cells only.
grid_ne_cells_only(W, this, other) ==
  range_cells(W, other) # range_cells(W, this)

\* GridBase::operator!=: the extents first, then std::equal over the cells.
grid_ne(W, this, other) ==
  IF W.grid[this].ext # W.grid[other].ext
    THEN TRUE
    ELSE range_cells(W, other) # range_cells(W, this)

\* GridBase::operator==
grid_eq(W, this, other) == ~grid_ne(W, this, other)

\* What an operation leaves in `last`.
Record(op, dst, src, e) ==
  [op |-> op, dst |-> dst, src |-> src, e |-> e]

\* Installs the world W as the next state.
Commit(W, rec) ==
  /\ grid' = W.grid
  /\ heap' = W.heap
  /\ nAlloc' = W.nAlloc
  /\ badFree' = W.badFree
  /\ last' = rec
  /\ UNCHANGED nullOnZero
  /\ UNCHANGED viewVars
  /\ UNCHANGED tiledVars
  /\ UNCHANGED restVars

CanAllocate == nAlloc < MaxBlocks

Alive(g) == grid[g].alive

OwnedInit ==
  /\ grid = [g \in GridIds |-> default_grid]
  /\ heap = [b \in BlockIds |-> [st |-> "unused", cells |-> <<>>]]
  /\ nAlloc = 0
  /\ badFree = FALSE
  /\ nullOnZero \in BOOLEAN
  /\ last = [op |-> "init", dst |-> "a", src |-> "a", e |-> Zero]

ConstructDefault ==
  \E g \in GridIds :
    /\ ~Alive(g)
    /\ Commit([World EXCEPT !.grid[g] = default_grid],
              Record("construct", g, g, Zero))

ConstructSized ==
  \E g \in GridIds, e \in ExtentsDomain, v \in Values :
    /\ ~Alive(g)
    /\ CanAllocate
    /\ Commit(construct_sized(World, g, e, v, nullOnZero), Record("construct_sized", g, g, e))

\* Grid<int> g{e, v} with extents up to those of the parent grid of the views.
ConstructSizedLarge ==
  \E g \in GridIds, e \in (0..ParentExtentX) \X (0..ParentExtentY), v \in Values :
    /\ ~Alive(g)
    /\ CanAllocate
    /\ Commit(construct_sized(World, g, e, v, nullOnZero), Record("construct_sized", g, g, e))

ConstructCopy ==
  \E g \in GridIds, o \in GridIds :
    /\ ~Alive(g)
    /\ Alive(o)
    /\ CanAllocate
    /\ Commit(construct_copy(World, g, o, nullOnZero), Record("construct_copy", g, o, Zero))

ConstructMove ==
  \E g \in GridIds, o \in GridIds :
    /\ ~Alive(g)
    /\ Alive(o)
    /\ Commit(construct_move(World, g, o), Record("construct_move", g, o, Zero))

Destroy ==
  \E g \in GridIds :
    /\ Alive(g)
    /\ Commit(destroy(World, g), Record("destroy", g, g, Zero))

Clear ==
  \E g \in GridIds :
    /\ Alive(g)
    /\ Commit(clear(World, g), Record("clear", g, g, Zero))

Resize ==
  \E g \in GridIds, e \in ExtentsDomain :
    /\ Alive(g)
    /\ CanAllocate
    /\ Commit(resize(World, g, e, nullOnZero), Record("resize", g, g, e))

ResizeValue ==
  \E g \in GridIds, e \in ExtentsDomain, v \in Values :
    /\ Alive(g)
    /\ CanAllocate
    /\ Commit(resize_value(World, g, e, v, nullOnZero), Record("resize_value", g, g, e))

MoveAssign ==
  \E dst \in GridIds, src \in GridIds :
    /\ Alive(dst)
    /\ Alive(src)
    /\ Commit(move_assign(World, dst, src), Record("move_assign", dst, src, Zero))

CopyAssign ==
  \E dst \in GridIds, src \in GridIds :
    /\ Alive(dst)
    /\ Alive(src)
    /\ CanAllocate
    /\ Commit(copy_assign(World, dst, src, nullOnZero), Record("copy_assign", dst, src, Zero))

Swap ==
  \E a \in GridIds, b \in GridIds :
    /\ Alive(a)
    /\ Alive(b)
    /\ Commit(swap(World, a, b), Record("swap", a, b, Zero))

WriteCell ==
  \E g \in GridIds, v \in Values :
    /\ Alive(g)
    /\ \E pt \in IndexSpace(grid[g].ext) :
         Commit(write_cell(World, g, pt, v), Record("write", g, g, Zero))

\* a == b and a != b
Compare ==
  \E a \in GridIds, b \in GridIds :
    /\ Alive(a)
    /\ Alive(b)
    /\ Commit(World, [op |-> "compare", dst |-> a, src |-> b, e |-> Zero,
                      eq |-> grid_eq(World, a, b), ne |-> grid_ne(World, a, b)])

OwnedNext ==
  \/ ConstructDefault
  \/ ConstructSized
  \/ ConstructCopy
  \/ ConstructMove
  \/ Destroy
  \/ Clear
  \/ Resize
  \/ ResizeValue
  \/ MoveAssign
  \/ CopyAssign
  \/ Swap
  \/ WriteCell

\* ------------------------------------------------------------------ views
ParentExtents == <<ParentExtentX, ParentExtentY>>

\* The storage slots of the parent grid.
ParentSlots == 0..(area(ParentExtents) - 1)

\* Bounds that lie inside a region of the given extents.
BoundsInside(extents) ==
  {b \in [origin : (0..X(extents)) \X (0..Y(extents)),
          ext    : (0..X(extents)) \X (0..Y(extents))] :
     X(b.origin) + X(b.ext) <= X(extents) /\ Y(b.origin) + Y(b.ext) <= Y(extents)}

\* GridBase::operator[] on the parent grid g (origin (0,0)):
\* access_impl(pt + origin()), RawAccessBase::access_impl -> data_[toLinearIndex(pt)].
grid_slot(pt) == toLinearIndex(ParentExtents, Plus(pt, Zero))

\* Mutant of view_slot: the view forgets to add its origin.
view_slot_ignores_origin(vb, pt) == grid_slot(pt)

\* GridBase::operator[] on a View over g:
\* View::access_impl(pt + origin()) = parent_->operator[](pt + origin()).
view_slot(vb, pt) == grid_slot(Plus(pt, vb.origin))

\* GridBase::operator[] on a View wb taken over the View vb.
subview_slot(vb, wb, pt) == view_slot(vb, Plus(pt, wb.origin))

\* ColViewIterator::increment_impl
col_increment(extents, pt) ==
  IF X(pt) + 1 = X(extents) THEN <<0, Y(pt) + 1>> ELSE <<X(pt) + 1, Y(pt)>>

\* ColViewIterator::eq_end_impl
col_eq_end(extents, pt) == Y(pt) = Y(extents)

\* GridBase::operator=(other): std::copy(other.begin(), other.end(), this->begin())
\* with *this a View (ColViewIterator from (0,0)) and other a grid with linear
\* storage src; k is the next element of src. Yields [cells, fault].
RECURSIVE copy_into_view(_, _, _, _, _)
copy_into_view(cells, vb, src, k, pt) ==
  IF k > Len(src)
    THEN [cells |-> cells, fault |-> FALSE]
    ELSE IF view_slot(vb, pt) \notin ParentSlots
      THEN [cells |-> cells, fault |-> TRUE]
      ELSE copy_into_view([cells EXCEPT ![view_slot(vb, pt)] = src[k]],
                          vb, src, k + 1, col_increment(vb.ext, pt))

\* GridBase::fill(value) on a View: for (auto& c : *derived()) c = value,
\* from begin() = ColViewIterator at pt until it equals ViewIteratorEnd.
RECURSIVE fill_view(_, _, _, _)
fill_view(cells, vb, pt, value) ==
  IF col_eq_end(vb.ext, pt)
    THEN [cells |-> cells, fault |-> FALSE]
    ELSE IF view_slot(vb, pt) \notin ParentSlots
      THEN [cells |-> cells, fault |-> TRUE]
      ELSE fill_view([cells EXCEPT ![view_slot(vb, pt)] = value],
                     vb, col_increment(vb.ext, pt), value)

ViewRecord(op, p, x, sub, src) ==
  [op |-> op, p |-> p, x |-> x, sub |-> sub, src |-> src]

\* The outcome r = [cells, fault] of a loop becomes the next state; an access
\* outside the storage is undefined behaviour, after which the storage may
\* hold anything.
ViewCommit(r, rec) ==
  /\ vfault' = r.fault
  /\ IF r.fault THEN pcells' \in [ParentSlots -> Values] ELSE pcells' = r.cells
  /\ vlast' = rec
  /\ UNCHANGED view
  /\ UNCHANGED ownedVars
  /\ UNCHANGED tiledVars
  /\ UNCHANGED restVars

ViewInit ==
  /\ pcells = [i \in ParentSlots |-> 0]
  /\ view = [origin |-> Zero, ext |-> ParentExtents]
  /\ vfault = FALSE
  /\ vlast = ViewRecord("init", Zero, 0, Zero, <<>>)

\* GridBase::view(bounds)
TakeView ==
  \E b \in BoundsInside(ParentExtents) :
    /\ ~vfault
    /\ view' = b
    /\ vlast' = ViewRecord("view", Zero, 0, Zero, <<>>)
    /\ UNCHANGED <<pcells, vfault>>
    /\ UNCHANGED ownedVars
    /\ UNCHANGED tiledVars
    /\ UNCHANGED restVars

\* g[p] = x
WriteParent ==
  \E p \in IndexSpace(ParentExtents), x \in Values :
    /\ ~vfault
    /\ ViewCommit([cells |-> [pcells EXCEPT ![grid_slot(p)] = x], fault |-> FALSE],
                  ViewRecord("write_parent", p, x, Zero, <<>>))

\* v[p] = x
WriteView ==
  \E p \in IndexSpace(view.ext), x \in Values :
    /\ ~vfault
    /\ ViewCommit([cells |-> [pcells EXCEPT ![view_slot(view, p)] = x], fault |-> FALSE],
                  ViewRecord("write_view", p, x, Zero, <<>>))

\* if (v.within(p)) v[p] = x
WriteWithin ==
  \E p \in IndexSpace(ParentExtents), x \in Values :
    /\ ~vfault
    /\ within(view.origin, view.ext, p)
    /\ LET slot == view_slot(view, p)
       IN  ViewCommit(IF slot \in ParentSlots
                        THEN [cells |-> [pcells EXCEPT ![slot] = x], fault |-> FALSE]
                        ELSE [cells |-> pcells, fault |-> TRUE],
                      ViewRecord("write_within", p, x, Zero, <<>>))

\* v.view(wb)[p] = x
WriteSubView ==
  \E wb \in BoundsInside(view.ext), x \in Values :
    \E p \in IndexSpace(wb.ext) :
      /\ ~vfault
      /\ ViewCommit([cells |-> [pcells EXCEPT ![subview_slot(view, wb, p)] = x],
                     fault |-> FALSE],
                    ViewRecord("write_subview", p, x, wb.origin, <<>>))

\* v = B for a grid B whose extents equal those of v
AssignView ==
  \E src \in [1..area(view.ext) -> Values] :
    /\ ~vfault
    /\ ViewCommit(copy_into_view(pcells, view, src, 1, Zero),
                  ViewRecord("assign", Zero, 0, Zero, src))

\* v.fill(x)
FillView ==
  \E x \in Values :
    /\ ~vfault
    /\ ViewCommit(fill_view(pcells, view, Zero, x),
                  ViewRecord("fill", Zero, x, Zero, <<>>))

\* GridBase::bounds of the view: the bounds object the view was built with.
view_bounds(vb) == [origin |-> vb.origin, ext |-> vb.ext]

\* v.view()[p] = x: GridBase::view() is view(bounds()), a View over v.
WriteWholeView ==
  \E x \in Values :
    \E p \in IndexSpace(view_bounds(view).ext) :
      /\ ~vfault
      /\ LET k == subview_slot(view, view_bounds(view), p)
         IN  ViewCommit(IF k \in ParentSlots
                          THEN [cells |-> [pcells EXCEPT ![k] = x], fault |-> FALSE]
                          ELSE [cells |-> pcells, fault |-> TRUE],
                        ViewRecord("write_whole", p, x, view_bounds(view).origin, <<>>))

WholeViewNext ==
  \/ TakeView
  \/ WriteWholeView

ViewNext ==
  \/ TakeView
  \/ WriteParent
  \/ WriteView
  \/ WriteWithin
  \/ WriteSubView
  \/ AssignView
  \/ FillView

\* ------------------------------------------------------------ tiled grid
\* FixedTiledGrid<CellT, Height, Width, TileHeight, TileWidth>: every
\* instantiation the static_asserts accept (Height >= TileHeight and
\* Width >= TileWidth; a zero tile dimension does not compile).
TiledConfigs ==
  {c \in [H : 1..MaxTiledX, W : 1..MaxTiledY, TH : 1..MaxTiledX, TW : 1..MaxTiledY] :
     c.H >= c.TH /\ c.W >= c.TW}

\* FixedTiledGrid::TileRows
TileRows(c) == c.H \div c.TH

\* FixedTiledGrid::TileCols
TileCols(c) == c.W \div c.TW

\* FixedTiledGrid::TileCount
TileCount(c) == TileRows(c) * TileCols(c)

\* The elements of tiles_ (a FixedGrid<TileType, TileRows, TileCols>).
TileSlots(c) == 0..(TileCount(c) - 1)

\* The cells of one tile (a FixedGrid<CellT, TileHeight, TileWidth>).
TileCellSlots(c) == 0..((c.TH * c.TW) - 1)

\* Tile{}: no data, origin (0,0).
empty_tile == [has |-> FALSE, cells |-> <<>>, origin |-> Zero]

\* tile_pt in access_impl
tile_pt(c, pt) == <<X(pt) \div c.TH, Y(pt) \div c.TW>>

\* tiles_[tile_pt]: GridBase::operator[] of the FixedGrid tiles_ (origin
\* (0,0)), ContainerAccessBase::toLinearIndex with extents (TileRows, TileCols).
tile_slot(c, pt) == toLinearIndex(<<TileRows(c), TileCols(c)>>, Plus(tile_pt(c, pt), Zero))

\* tile.data->operator[](pt - tile.origin): the cell inside the tile.
tile_cell_slot(c, tile, pt) ==
  toLinearIndex(<<c.TH, c.TW>>, Plus(Minus(pt, tile.origin), Zero))

\* FixedTiledGrid::access_impl(pt) const. Yields [value, fault]; on a fault
\* (an index outside tiles_ or outside the tile) the value is unspecified.
access_impl_const(c, def, ts, pt) ==
  IF tile_slot(c, pt) \notin TileSlots(c)
    THEN [value |-> def, fault |-> TRUE]
    ELSE LET tile == ts[tile_slot(c, pt)]
         IN  IF tile.has
               THEN IF tile_cell_slot(c, tile, pt) \notin TileCellSlots(c)
                      THEN [value |-> def, fault |-> TRUE]
                      ELSE [value |-> tile.cells[tile_cell_slot(c, tile, pt) + 1],
                            fault |-> FALSE]
               ELSE [value |-> def, fault |-> FALSE]

\* The if (!tile.data) block of the mutable access_impl; T = [tiles, made].
materialize(c, def, T, pt) ==
  LET k == tile_slot(c, pt)
  IN  IF T.tiles[k].has THEN T
      ELSE [tiles |-> [T.tiles EXCEPT ![k] =
                         [has |-> TRUE, cells |-> Uniform(c.TH * c.TW, def),
                          origin |-> <<X(tile_pt(c, pt)) * c.TH, Y(tile_pt(c, pt)) * c.TW>>]],
            made |-> T.made \cup {k}]

\* FixedTiledGrid::access_impl(pt), mutable. Yields [T, slot, cell, fault]:
\* the state after the access and the cell the returned reference names.
access_impl(c, def, T, pt) ==
  IF tile_slot(c, pt) \notin TileSlots(c)
    THEN [T |-> T, slot |-> 0, cell |-> 0, fault |-> TRUE]
    ELSE LET T1   == materialize(c, def, T, pt)
             tile == T1.tiles[tile_slot(c, pt)]
         IN  IF tile_cell_slot(c, tile, pt) \notin TileCellSlots(c)
               THEN [T |-> T1, slot |-> 0, cell |-> 0, fault |-> TRUE]
               ELSE [T |-> T1, slot |-> tile_slot(c, pt),
                     cell |-> tile_cell_slot(c, tile, pt), fault |-> FALSE]

\* A load through the reference access_impl returned.
load(r) == r.T.tiles[r.slot].cells[r.cell + 1]

\* A store through the reference access_impl returned.
store(r, x) == [r.T EXCEPT !.tiles[r.slot].cells[r.cell + 1] = x]

\* Iteration over the grid: begin_impl() is view_.begin() (view_.cbegin() on
\* a const grid), a ColViewIterator over the View view_ whose parent_ is a
\* pointer to the non-const grid, so each dereference runs the mutable
\* access_impl. write = TRUE stores x in every cell, otherwise the cells are
\* read into vals. Yields [T, vals, fault].
RECURSIVE iterate(_, _, _, _, _, _, _)
iterate(c, def, T, pt, write, x, vals) ==
  IF col_eq_end(<<c.H, c.W>>, pt)
    THEN [T |-> T, vals |-> vals, fault |-> FALSE]
    ELSE LET r == access_impl(c, def, T, Plus(Plus(pt, Zero), Zero))
         IN  IF r.fault
               THEN [T |-> r.T, vals |-> vals, fault |-> TRUE]
               ELSE iterate(c, def, IF write THEN store(r, x) ELSE r.T,
                            col_increment(<<c.H, c.W>>, pt), write, x,
                            IF write THEN vals ELSE vals \cup {load(r)})

\* FixedTiledGrid::mask, as the slot -> BOOLEAN function it fills.
mask(c, ts) == [k \in TileSlots(c) |-> ts[k].has]

\* FixedTiledGrid::active
active(c, ts) == Cardinality({k \in TileSlots(c) : ts[k].has})

\* What tiles_ may hold after undefined behaviour.
HavocTiles(c, def) ==
  [TileSlots(c) ->
     {empty_tile, [has |-> TRUE, cells |-> Uniform(c.TH * c.TW, def), origin |-> Zero]}]

TiledRecord(op, p, x, vals) == [op |-> op, p |-> p, x |-> x, vals |-> vals]

\* The outcome of an access or loop becomes the next state.
TiledCommit(T, fault, rec) ==
  /\ tfault' = fault
  /\ IF fault THEN tiles' \in HavocTiles(tcfg, tdefault) ELSE tiles' = T.tiles
  /\ made' = T.made
  /\ tlast' = rec
  /\ UNCHANGED <<tcfg, tdefault>>
  /\ UNCHANGED ownedVars
  /\ UNCHANGED viewVars
  /\ UNCHANGED restVars

TiledState == [tiles |-> tiles, made |-> made]

TiledCells == IndexSpace(<<tcfg.H, tcfg.W>>)

TiledInit ==
  /\ tcfg \in TiledConfigs
  /\ tdefault \in Values
  /\ tiles = [k \in TileSlots(tcfg) |-> empty_tile]
  /\ made = {}
  /\ tfault = FALSE
  /\ tlast = TiledRecord("init", Zero, 0, {})

TiledIdle ==
  /\ tcfg = [H |-> 1, W |-> 1, TH |-> 1, TW |-> 1]
  /\ tdefault = 0
  /\ tiles = [k \in TileSlots(tcfg) |-> empty_tile]
  /\ made = {}
  /\ tfault = FALSE
  /\ tlast = TiledRecord("init", Zero, 0, {})

\* const CellT& v = grid[p] on a const grid
TiledReadConst ==
  \E p \in TiledCells :
    /\ ~tfault
    /\ LET r == access_impl_const(tcfg, tdefault, tiles, Plus(p, Zero))
       IN  /\ \E v \in (IF r.fault THEN Values ELSE {r.value}) :
                tlast' = TiledRecord("read_const", p, v, {})
           /\ tfault' = r.fault
    /\ UNCHANGED <<tcfg, tdefault, tiles, made>>
    /\ UNCHANGED ownedVars
    /\ UNCHANGED viewVars
    /\ UNCHANGED restVars

\* v = grid[p] on a non-const grid
TiledRead ==
  \E p \in TiledCells :
    /\ ~tfault
    /\ LET r == access_impl(tcfg, tdefault, TiledState, Plus(p, Zero))
       IN  \E v \in (IF r.fault THEN Values ELSE {load(r)}) :
             TiledCommit(r.T, r.fault, TiledRecord("read", p, v, {}))

\* grid[p] = x
TiledWrite ==
  \E p \in TiledCells, x \in Values :
    /\ ~tfault
    /\ LET r == access_impl(tcfg, tdefault, TiledState, Plus(p, Zero))
       IN  TiledCommit(IF r.fault THEN r.T ELSE store(r, x), r.fault,
                       TiledRecord("write", p, x, {}))

\* for (const auto& v : grid) on a non-const grid (begin_impl())
TiledIterate ==
  /\ ~tfault
  /\ LET r == iterate(tcfg, tdefault, TiledState, Zero, FALSE, 0, {})
     IN  TiledCommit(r.T, r.fault, TiledRecord("iterate", Zero, 0, r.vals))

\* for (const auto& v : grid) on a const grid (begin_impl() const)
TiledIterateConst ==
  /\ ~tfault
  /\ LET r == iterate(tcfg, tdefault, TiledState, Zero, FALSE, 0, {})
     IN  TiledCommit(r.T, r.fault, TiledRecord("iterate_const", Zero, 0, r.vals))

\* for (auto& c : grid) c = x
TiledFill ==
  \E x \in Values :
    /\ ~tfault
    /\ LET r == iterate(tcfg, tdefault, TiledState, Zero, TRUE, x, {})
       IN  TiledCommit(r.T, r.fault, TiledRecord("fill", Zero, x, {}))

TiledNext ==
  \/ TiledReadConst
  \/ TiledRead
  \/ TiledWrite
  \/ TiledIterate
  \/ TiledIterateConst
  \/ TiledFill

\* ---------------------------------------------------------- mapped grids
MappedIds == {"m", "n"}

BufferIds == 1..MaxBuffers

\* Every buffer holds the cells of the largest extents.
BufferSlots == 1..area(<<MaxExtentX, MaxExtentY>>)

\* The mapped-grid state as one value, threaded through the operations.
MappedWorld == [grid |-> mgrid, mem |-> mem]

\* MappedGrid::MappedGrid(const Extents&, CellT* mem)
mapped_construct(M, g, extents, buf) ==
  [M EXCEPT !.grid[g] = [alive |-> TRUE, data |-> buf, ext |-> extents]]

\* MappedGrid::MappedGrid(const MappedGrid&)
mapped_construct_copy(M, g, other) ==
  [M EXCEPT !.grid[g] = [alive |-> TRUE, data |-> M.grid[other].data,
                         ext |-> M.grid[other].ext]]

\* Mutant of mapped_copy_assign: the data pointer is not rebound.
mapped_copy_assign_keeps_data(M, this, other) ==
  [M EXCEPT !.grid[this].ext = M.grid[other].ext]

\* MappedGrid::operator=(const MappedGrid&)
mapped_copy_assign(M, this, other) ==
  LET M1 == [M EXCEPT !.grid[this].ext = M.grid[other].ext]
  IN  [M1 EXCEPT !.grid[this].data = M1.grid[other].data]

\* MappedGrid::swap_resize_impl
mapped_swap_resize_impl(M, this, other) ==
  LET tmp_extents == M.grid[other].ext
      M1 == [M EXCEPT !.grid[other].ext = M.grid[this].ext]
  IN  [M1 EXCEPT !.grid[this].ext = tmp_extents]

\* RawAccessBase::swap on two mapped grids
mapped_swap(M, this, other) ==
  LET other_data == M.grid[other].data
      this_data  == M.grid[this].data
      M1 == mapped_swap_resize_impl(M, this, other)
      M2 == [M1 EXCEPT !.grid[this].data = other_data]
  IN  [M2 EXCEPT !.grid[other].data = this_data]

\* GridBase::operator[] on a mapped grid (origin (0,0)) followed by a store.
mapped_write(M, g, pt, v) ==
  [M EXCEPT !.mem[M.grid[g].data][toLinearIndex(M.grid[g].ext, Plus(pt, Zero)) + 1] = v]

\* GridBase::operator[] on a mapped grid, read.
mapped_read(M, g, pt) ==
  M.mem[M.grid[g].data][toLinearIndex(M.grid[g].ext, Plus(pt, Zero)) + 1]

\* ~MappedGrid: the memory stays with the caller.
mapped_destroy(M, g) ==
  [M EXCEPT !.grid[g] = [alive |-> FALSE, data |-> 0, ext |-> Zero]]

MappedRecord(op, dst, src) ==
  [op |-> op, dst |-> dst, src |-> src, pre |-> mgrid[dst]]

\* Installs the mapped world M as the next state.
MappedCommit(M, rec) ==
  /\ mgrid' = M.grid
  /\ mem' = M.mem
  /\ mlast' = rec
  /\ UNCHANGED ownedVars
  /\ UNCHANGED viewVars
  /\ UNCHANGED tiledVars
  /\ UNCHANGED floodVars
  /\ UNCHANGED boundsVars
  /\ UNCHANGED iterVars

MappedAlive(g) == mgrid[g].alive

\* Two buffers of zeros, no mapped grid constructed yet.
MappedInit ==
  /\ mem = [b \in BufferIds |-> [i \in BufferSlots |-> 0]]
  /\ mgrid = [g \in MappedIds |-> [alive |-> FALSE, data |-> 0, ext |-> Zero]]
  /\ mlast = [op |-> "init", dst |-> "m", src |-> "m",
              pre |-> [alive |-> FALSE, data |-> 0, ext |-> Zero]]

MappedConstruct ==
  \E g \in MappedIds, e \in ExtentsDomain, b \in BufferIds :
    /\ ~MappedAlive(g)
    /\ MappedCommit(mapped_construct(MappedWorld, g, e, b), MappedRecord("construct", g, g))

MappedConstructCopy ==
  \E g \in MappedIds, o \in MappedIds :
    /\ ~MappedAlive(g)
    /\ MappedAlive(o)
    /\ MappedCommit(mapped_construct_copy(MappedWorld, g, o),
                    MappedRecord("construct_copy", g, o))

MappedCopyAssign ==
  \E dst \in MappedIds, src \in MappedIds :
    /\ MappedAlive(dst)
    /\ MappedAlive(src)
    /\ MappedCommit(mapped_copy_assign(MappedWorld, dst, src),
                    MappedRecord("copy_assign", dst, src))

MappedSwap ==
  \E a \in MappedIds, b \in MappedIds :
    /\ MappedAlive(a)
    /\ MappedAlive(b)
    /\ MappedCommit(mapped_swap(MappedWorld, a, b), MappedRecord("swap", a, b))

MappedWrite ==
  \E g \in MappedIds, v \in Values :
    /\ MappedAlive(g)
    /\ \E pt \in IndexSpace(mgrid[g].ext) :
         MappedCommit(mapped_write(MappedWorld, g, pt, v), MappedRecord("write", g, g))

MappedDestroy ==
  \E g \in MappedIds :
    /\ MappedAlive(g)
    /\ MappedCommit(mapped_destroy(MappedWorld, g), MappedRecord("destroy", g, g))

\* The cells of [begin(), end()) of a mapped grid: area(extents) cells from data_.
mapped_range_cells(M, g) ==
  [k \in 1..area(M.grid[g].ext) |-> M.mem[M.grid[g].data][k]]

\* GridBase::operator!= on mapped grids
mapped_ne(M, this, other) ==
  IF M.grid[this].ext # M.grid[other].ext
    THEN TRUE
    ELSE mapped_range_cells(M, other) # mapped_range_cells(M, this)

\* GridBase::operator== on mapped grids
mapped_eq(M, this, other) == ~mapped_ne(M, this, other)

\* a == b and a != b on mapped grids
MappedCompare ==
  \E a \in MappedIds, b \in MappedIds :
    /\ MappedAlive(a)
    /\ MappedAlive(b)
    /\ MappedCommit(MappedWorld,
                    [op |-> "compare", dst |-> a, src |-> b, pre |-> mgrid[a],
                     eq |-> mapped_eq(MappedWorld, a, b),
                     ne |-> mapped_ne(MappedWorld, a, b)])

MappedNext ==
  \/ MappedConstruct
  \/ MappedConstructCopy
  \/ MappedCopyAssign
  \/ MappedSwap
  \/ MappedWrite
  \/ MappedDestroy

\* ------------------------------------------------------------- flood fill
\* No flood fill is running: a 1 x 1 grid after a call that had no seed.
FloodIdle ==
  /\ fext = <<1, 1>>
  /\ fcells = [i \in {0} |-> 0]
  /\ fbounds = [origin |-> Zero, ext |-> <<1, 1>>]
  /\ fcfg = [validator |-> "zero", updater |-> "dec", ties |-> "any",
             overload |-> "generator"]
  /\ seeds = EmptyBag
  /\ fpc = "done"
  /\ ffault = FALSE
  /\ fstart = [i \in {0} |-> 0]
  /\ fwrites = [i \in {0} |-> 0]
  /\ flast = [value |-> 0, position |-> Zero, seeded |-> FALSE]

FloodExtents == <<FloodExtentX, FloodExtentY>>

FloodValues == 0..FloodMaxValue

\* The storage of a grid of the given extents.
FloodSlots(extents) == 0..(area(extents) - 1)

\* GridBase::operator[](pt) on the grid or view b handed to flood_fill:
\* access_impl(pt + origin()), the cell of the owning grid at pt + origin().
flood_slot(extents, b, pt) == toLinearIndex(extents, Plus(pt, b.origin))

\* A seed, sparse_cell_t<GridT>{value, position}.
SparseCell(value, position) == [value |-> value, position |-> position]

\* The seed generators of the tests: [](const int v) { return v > 0; }
seed_generator(v) == v > 0

\* An updater that steps down by two: std::max(1, sc - 2).
value_updater_by_two(cfg, curr) ==
  IF curr.value - 2 > 1 THEN curr.value - 2 ELSE 1

\* value_updater(curr): "dec" is std::max(1, sc - 1) of the tests, "keep"
\* returns the value of the seed.
value_updater(cfg, curr) ==
  IF cfg.updater = "dec"
    THEN (IF curr.value - 1 > 1 THEN curr.value - 1 ELSE 1)
    ELSE curr.value

\* expansion_validator(sc): "zero" is sc == 0 of the tests, "true" accepts
\* every cell.
expansion_validator(cfg, sc) ==
  IF cfg.validator = "zero" THEN sc.value = 0 ELSE TRUE

\* A queue that hands out any of its seeds.
top_any_seed(q, ties) == BagToSet(q)

\* std::priority_queue::top() under std::less<SparseCell>, which compares the
\* values (SparseCell::operator<): a seed of the largest value. Which of several
\* such seeds comes first depends on the heap: "any" is any of them, "ends" is
\* the one at the lowest or at the highest linear index.
top(q, ties) ==
  LET best == {s \in BagToSet(q) : \A t \in BagToSet(q) : t.value <= s.value}
      key(s) == toLinearIndex(fext, s.position)
  IN IF ties = "any"
       THEN best
       ELSE {s \in best : \/ \A t \in best : key(s) <= key(t)
                          \/ \A t \in best : key(t) <= key(s)}

\* FixedOriginExtentsBounds<-1, -1, 3, 3>: origin() and origin() + extents()
NeighbourOrigin == <<-1, -1>>

NeighbourPastCorner == Plus(NeighbourOrigin, <<3, 3>>)

\* A column-major increment that wraps x to 0 instead of the origin.
col_bounds_increment_to_zero(origin, past_corner, pt) ==
  IF X(pt) + 1 = X(past_corner) THEN <<0, Y(pt) + 1>> ELSE <<X(pt) + 1, Y(pt)>>

\* ColBoundsIterator::increment_impl
col_bounds_increment(origin, past_corner, pt) ==
  IF X(pt) + 1 = X(past_corner) THEN <<X(origin), Y(pt) + 1>> ELSE <<X(pt) + 1, Y(pt)>>

\* ColBoundsIterator::eq_end_impl
col_bounds_eq_end(past_corner, pt) == Y(pt) = Y(past_corner)

\* The for loop over the 3 x 3 offsets around the seed curr, from offset on.
\* st = [cells, seeds, writes, fault], call = [ext, bounds, cfg]. An access
\* outside the storage stops the loop with fault set.
RECURSIVE expand(_, _, _, _, _)
expand(st, call, curr, next_value, offset) ==
  IF col_bounds_eq_end(NeighbourPastCorner, offset)
    THEN st
    ELSE
      LET next_position == Plus(curr.position, offset)
          slot == flood_slot(call.ext, call.bounds, next_position)
          nxt == col_bounds_increment(NeighbourOrigin, NeighbourPastCorner, offset)
      IN IF ~within(call.bounds.origin, call.bounds.ext, next_position)
           THEN expand(st, call, curr, next_value, nxt)
           ELSE IF slot \notin FloodSlots(call.ext)
             THEN [st EXCEPT !.fault = TRUE]
             ELSE IF ~expansion_validator(call.cfg, SparseCell(st.cells[slot], next_position))
               THEN expand(st, call, curr, next_value, nxt)
               ELSE expand([st EXCEPT
                              !.seeds = @ (+) SetToBag({SparseCell(next_value, next_position)}),
                              !.cells[slot] = next_value,
                              !.writes[slot] = IF @ < MaxWrites THEN @ + 1 ELSE @],
                           call, curr, next_value, nxt)

\* The seed collection of the generator overload, one row of it: a
\* ColViewIterator over the grid from pt until its y changes. Yields
\* [seeds, pt (where the iterator stands), fault].
RECURSIVE collect_row(_, _, _, _, _)
collect_row(cells, extents, b, pt, acc) ==
  IF flood_slot(extents, b, pt) \notin FloodSlots(extents)
    THEN [seeds |-> acc, pt |-> pt, fault |-> TRUE]
    ELSE
      LET q == IF seed_generator(cells[flood_slot(extents, b, pt)])
                 THEN acc (+) SetToBag({SparseCell(cells[flood_slot(extents, b, pt)], pt)})
                 ELSE acc
          nxt == col_increment(b.ext, pt)
      IN IF Y(nxt) # Y(pt)
           THEN [seeds |-> q, pt |-> nxt, fault |-> FALSE]
           ELSE collect_row(cells, extents, b, nxt, q)

\* The seed collection of the generator overload: a ColViewIterator over the
\* grid from pt until it equals ViewIteratorEnd. Yields [seeds, fault].
RECURSIVE collect_seeds(_, _, _, _, _)
collect_seeds(cells, extents, b, pt, acc) ==
  IF col_eq_end(b.ext, pt)
    THEN [seeds |-> acc, fault |-> FALSE]
    ELSE
      LET r == collect_row(cells, extents, b, pt, acc)
      IN IF r.fault
           THEN [seeds |-> r.seeds, fault |-> TRUE]
           ELSE collect_seeds(cells, extents, b, r.pt, r.seeds)

FloodCallOf == [ext |-> fext, bounds |-> fbounds, cfg |-> fcfg]

FloodFrame ==
  /\ UNCHANGED <<fext, fbounds, fcfg, fstart>>
  /\ UNCHANGED <<ownedVars, viewVars, tiledVars, mappedVars, boundsVars, iterVars>>

\* The outcome of a step becomes the next state; an access outside the storage
\* is undefined behaviour, after which the storage may hold anything.
FloodCommit(cells, q, writes, fault, rec, pc) ==
  /\ seeds' = q
  /\ fwrites' = writes
  /\ ffault' = fault
  /\ flast' = rec
  /\ fpc' = pc
  /\ IF fault
       THEN fcells' \in [FloodSlots(fext) -> FloodValues]
       ELSE fcells' = cells
  /\ FloodFrame

\* Entry of flood_fill up to the while loop: the generator overload collects
\* the seeds from the grid, the other overload takes the seeds of the caller.
FloodCall ==
  /\ fpc = "call"
  /\ LET r == IF fcfg.overload = "generator"
                THEN collect_seeds(fcells, fext, fbounds, Zero, EmptyBag)
                ELSE [seeds |-> seeds, fault |-> FALSE]
     IN FloodCommit(fcells, r.seeds, fwrites, r.fault,
                    [value |-> 0, position |-> Zero,
                     seeded |-> \E s \in BagToSet(r.seeds) :
                                  s.position \in IndexSpace(fbounds.ext)],
                    "loop")

\* One iteration of the while loop: top, pop, and the expansion of the seed.
FloodPop ==
  /\ fpc = "loop"
  /\ ~ffault
  /\ seeds # EmptyBag
  /\ \A i \in DOMAIN fwrites : fwrites[i] < MaxWrites
  /\ \E curr \in top(seeds, fcfg.ties) :
       LET r == expand([cells |-> fcells, seeds |-> seeds (-) SetToBag({curr}),
                        writes |-> fwrites, fault |-> FALSE],
                       FloodCallOf, curr, value_updater(fcfg, curr), NeighbourOrigin)
       IN FloodCommit(r.cells, r.seeds, r.writes, r.fault,
                      [flast EXCEPT !.value = curr.value, !.position = curr.position],
                      "loop")

\* while (!seeds.empty()) finds the queue empty: flood_fill returns.
FloodReturn ==
  /\ fpc = "loop"
  /\ ~ffault
  /\ seeds = EmptyBag
  /\ FloodCommit(fcells, seeds, fwrites, FALSE, flast, "done")

FloodNext == FloodCall \/ FloodPop \/ FloodReturn

\* The positions of the seeds a caller hands over: the grid and one ring around it.
SeedWindow(extents) == ((-1)..X(extents)) \X ((-1)..Y(extents))

\* TEST(FloodFill, DescendingFillFromCenter): the side of the grid, the value
\* of its seeded cells, and the seeded cells.
CentreExtent == 10

CentreValue == 10

CentreCells == {<<5, 4>>, <<4, 5>>, <<4, 4>>, <<5, 5>>}

\* The grid and the call of TEST(FloodFill, DescendingFillFromCenter).
FloodCentreInit ==
  /\ fext = <<CentreExtent, CentreExtent>>
  /\ fcells = [i \in FloodSlots(<<CentreExtent, CentreExtent>>) |->
                 IF \E c \in CentreCells :
                      toLinearIndex(<<CentreExtent, CentreExtent>>, c) = i
                   THEN CentreValue ELSE 0]
  /\ fbounds = [origin |-> Zero, ext |-> <<CentreExtent, CentreExtent>>]
  /\ fcfg = [validator |-> "zero", updater |-> "dec", ties |-> "ends",
             overload |-> "generator"]
  /\ seeds = EmptyBag
  /\ fpc = "call"
  /\ ffault = FALSE
  /\ fstart = fcells
  /\ fwrites = [i \in FloodSlots(<<CentreExtent, CentreExtent>>) |-> 0]
  /\ flast = [value |-> 0, position |-> Zero, seeded |-> FALSE]

FloodCalls ==
  [validator : {"zero", "true"}, updater : {"dec", "keep"}, ties : {"any"},
   overload : {"generator", "seeds"}]

\* Before a call of flood_fill on a grid of FloodExtents or on a view of it;
\* each cell is empty or holds the largest value.
FloodInit ==
  /\ fext = FloodExtents
  /\ fcells \in [FloodSlots(FloodExtents) -> {0, FloodMaxValue}]
  /\ fbounds \in BoundsInside(FloodExtents)
  /\ fcfg \in FloodCalls
  /\ seeds \in IF fcfg.overload = "generator"
                THEN {EmptyBag}
                ELSE {SetToBag({SparseCell(v, p)}) :
                        v \in 1..FloodMaxValue, p \in SeedWindow(FloodExtents)}
  /\ fpc = "call"
  /\ ffault = FALSE
  /\ fstart = fcells
  /\ fwrites = [i \in FloodSlots(FloodExtents) |-> 0]
  /\ flast = [value |-> 0, position |-> Zero, seeded |-> FALSE]

\* ---------------------------------------------------------- bounds objects
BoundsKinds == {"Bounds", "FixedOriginBounds", "FixedExtentsBounds", "FixedOriginExtentsBounds"}

OriginDomain == ((0 - MaxOrigin)..MaxOrigin) \X ((0 - MaxOrigin)..MaxOrigin)

\* The points handed to within: the origins and extents, and a margin of one.
PointDomain ==
  ((0 - MaxOrigin - 1)..(MaxOrigin + MaxExtentX + 1)) \X
  ((0 - MaxOrigin - 1)..(MaxOrigin + MaxExtentY + 1))

\* Bounds, FixedOriginBounds<OX, OY>, FixedExtentsBounds<H, W> and
\* FixedOriginExtentsBounds<OX, OY, H, W>: the origin and the extents are
\* members (DynamicOriginBase, ResizableExtentsBase) or template arguments
\* (FixedOriginBase, FixedExtentsBase).
BoundsObjects == [kind : BoundsKinds, origin : OriginDomain, ext : ExtentsDomain]

\* BoundsBase::origin -> origin_impl
bounds_origin(b) == b.origin

\* BoundsBase::extents -> extents_impl
bounds_extents(b) == b.ext

\* The constructors from another bounds object: a fixed origin or fixed
\* extents stay those of the template arguments (given here by tmpl).
bounds_convert(tmpl, src) ==
  [kind   |-> tmpl.kind,
   origin |-> IF tmpl.kind \in {"Bounds", "FixedExtentsBounds"}
                THEN bounds_origin(src) ELSE tmpl.origin,
   ext    |-> IF tmpl.kind \in {"Bounds", "FixedOriginBounds"}
                THEN bounds_extents(src) ELSE tmpl.ext]

\* BoundsBase::within on a bounds object
bounds_within(b, pt) == within(bounds_origin(b), bounds_extents(b), pt)

BoundsInit ==
  /\ bnd \in BoundsObjects
  /\ bres = [op |-> "init", p |-> Zero, value |-> FALSE]

BoundsIdle ==
  /\ bnd = [kind |-> "Bounds", origin |-> Zero, ext |-> Zero]
  /\ bres = [op |-> "init", p |-> Zero, value |-> FALSE]

\* Everything but the bounds object stays as it is.
BoundsFrame ==
  /\ UNCHANGED ownedVars
  /\ UNCHANGED viewVars
  /\ UNCHANGED tiledVars
  /\ UNCHANGED mappedVars
  /\ UNCHANGED floodVars
  /\ UNCHANGED iterVars

\* OtherBounds{b}
BoundsConvert ==
  \E tmpl \in BoundsObjects :
    /\ bnd' = bounds_convert(tmpl, bnd)
    /\ bres' = [op |-> "convert", p |-> Zero, value |-> FALSE]
    /\ BoundsFrame

\* b.within(p)
BoundsWithin ==
  \E p \in PointDomain :
    /\ bres' = [op |-> "within", p |-> p, value |-> bounds_within(bnd, p)]
    /\ UNCHANGED bnd
    /\ BoundsFrame

BoundsNext ==
  \/ BoundsConvert
  \/ BoundsWithin

\* ------------------------------------------------- comparisons of bounds
\* Coordinates::abs
coords_abs(a) ==
  <<IF X(a) < 0 THEN 0 - X(a) ELSE X(a), IF Y(a) < 0 THEN 0 - Y(a) ELSE Y(a)>>

\* BoundsBase::overlaps
bounds_overlaps(a, b) ==
  all_le(coords_abs(Minus(bounds_origin(a), bounds_origin(b))),
         Plus(bounds_extents(a), bounds_extents(b)))

\* BoundsBase::operator==
bounds_eq(a, b) ==
  coords_eq(bounds_origin(a), bounds_origin(b)) /\ coords_eq(bounds_extents(a), bounds_extents(b))

Max2(a, b) == IF a < b THEN b ELSE a

Min2(a, b) == IF a < b THEN a ELSE b

\* An intersection that keeps the origin of its first argument.
intersection_from_first(a, b) ==
  LET o == bounds_origin(a)
      c == <<Min2(X(bounds_origin(a)) + X(bounds_extents(a)),
                  X(bounds_origin(b)) + X(bounds_extents(b))),
             Min2(Y(bounds_origin(a)) + Y(bounds_extents(a)),
                  Y(bounds_origin(b)) + Y(bounds_extents(b)))>>
  IN [kind   |-> "Bounds",
      origin |-> o,
      ext    |-> <<Max2(0, X(c) - X(o)), Max2(0, Y(c) - Y(o))>>]

\* intersection(a, b): the overlapping index rectangle, from the larger of
\* the two origins to the smaller of the two far corners; extents that would
\* be negative are zero, so that bounds that share no index give an empty
\* rectangle anchored at the intruding corner.
intersection(a, b) ==
  LET o == <<Max2(X(bounds_origin(a)), X(bounds_origin(b))),
             Max2(Y(bounds_origin(a)), Y(bounds_origin(b)))>>
      c == <<Min2(X(bounds_origin(a)) + X(bounds_extents(a)),
                  X(bounds_origin(b)) + X(bounds_extents(b))),
             Min2(Y(bounds_origin(a)) + Y(bounds_extents(a)),
                  Y(bounds_origin(b)) + Y(bounds_extents(b)))>>
  IN [kind   |-> "Bounds",
      origin |-> o,
      ext    |-> <<Max2(0, X(c) - X(o)), Max2(0, Y(c) - Y(o))>>]

\* a < b, a == b, a.all_gt(b), a.all_ge(b), a.all_lt(b), a.all_le(b) for a
\* point a and a corner b of the bounds object.
CoordsCompare ==
  \E a \in PointDomain :
    \E b \in {bounds_origin(bnd), Plus(bounds_origin(bnd), bounds_extents(bnd))} :
      /\ bres' = [op |-> "compare", p |-> a, q |-> b,
                  value |-> coords_less(a, b),
                  eq |-> coords_eq(a, b),
                  gt |-> all_gt(a, b), ge |-> all_ge(a, b),
                  lt |-> all_lt(a, b), le |-> all_le(a, b)]
      /\ UNCHANGED bnd
      /\ BoundsFrame

\* b.overlaps(other)
BoundsOverlaps ==
  \E other \in BoundsObjects :
    /\ bres' = [op |-> "overlaps", p |-> Zero, other |-> other,
                value |-> bounds_overlaps(bnd, other)]
    /\ UNCHANGED bnd
    /\ BoundsFrame

\* intersection(b, other) and intersection(other, b)
BoundsIntersection ==
  \E other \in BoundsObjects :
    /\ bres' = [op |-> "intersection", p |-> Zero, other |-> other,
                value |-> bounds_overlaps(bnd, other),
                ab |-> intersection(bnd, other),
                ba |-> intersection(other, bnd)]
    /\ UNCHANGED bnd
    /\ BoundsFrame

\* One comparison of each run: the operations are applied to the bounds
\* object the run starts with.
GeometryNext ==
  \/ bres.op = "init" /\ CoordsCompare
  \/ bres.op = "init" /\ BoundsOverlaps
  \/ bres.op = "init" /\ BoundsIntersection

\* ---------------------------------------------------------------- iteration
\* RowBoundsIterator::increment_impl
row_bounds_increment(origin, past_corner, pt) ==
  IF Y(pt) + 1 = Y(past_corner) THEN <<X(pt) + 1, Y(origin)>> ELSE <<X(pt), Y(pt) + 1>>

\* RowBoundsIterator::eq_end_impl
row_bounds_eq_end(past_corner, pt) == X(pt) = X(past_corner)

\* RowViewIterator::increment_impl
row_increment(extents, pt) ==
  IF Y(pt) + 1 = Y(extents) THEN <<X(pt) + 1, 0>> ELSE <<X(pt), Y(pt) + 1>>

\* RowViewIterator::eq_end_impl
row_eq_end(extents, pt) == X(pt) = X(extents)

\* An end iterator placed on the last index, extents - (1,1).
view_end_iterator_at_corner(order, extents) ==
  [order |-> order, pt |-> Minus(extents, <<1, 1>>)]

\* ColViewIterator(view, ViewIteratorEnd) and RowViewIterator(view, ViewIteratorEnd)
view_end_iterator(order, extents) ==
  [order |-> order, pt |-> IF order = "col" THEN <<0, Y(extents)>> ELSE <<X(extents), 0>>]

\* ViewIteratorBase::operator==(const DerivedT&) of two iterators over one view
view_iterator_eq(a, b) == a.pt = b.pt

\* make_col_bounds_range(b).begin(), make_row_bounds_range(b).begin(),
\* ColViewIterator{view} and RowViewIterator{view}
begin_iterator(t, order) ==
  [order |-> order, pt |-> IF t.kind = "bounds" THEN t.origin ELSE Zero]

\* it == BoundsIteratorEnd{} / it == ViewIteratorEnd{}
iterator_eq_end(t, it) ==
  IF t.kind = "bounds"
    THEN (IF it.order = "col"
            THEN col_bounds_eq_end(Plus(t.origin, t.ext), it.pt)
            ELSE row_bounds_eq_end(Plus(t.origin, t.ext), it.pt))
    ELSE (IF it.order = "col" THEN col_eq_end(t.ext, it.pt) ELSE row_eq_end(t.ext, it.pt))

\* ++it
iterator_increment(t, it) ==
  [it EXCEPT !.pt =
     IF t.kind = "bounds"
       THEN (IF it.order = "col"
               THEN col_bounds_increment(t.origin, Plus(t.origin, t.ext), it.pt)
               ELSE row_bounds_increment(t.origin, Plus(t.origin, t.ext), it.pt))
       ELSE (IF it.order = "col" THEN col_increment(t.ext, it.pt) ELSE row_increment(t.ext, it.pt))]

\* *it on a view iterator reads view[pt]; a bounds iterator returns pt itself.
iterator_deref_faults(t, it) ==
  t.kind = "view" /\ view_slot(t, it.pt) \notin ParentSlots

\* The bounds (of extents up to those of the parent grid) and the views (of
\* the parent grid, and the parent grid itself as the view at (0,0) of its full
\* extents) a loop runs over.
IterTargets ==
  {t \in [kind : {"bounds"}, origin : OriginDomain,
          ext : (0..ParentExtentX) \X (0..ParentExtentY)] : TRUE}
  \cup {[kind |-> "view", origin |-> b.origin, ext |-> b.ext] : b \in BoundsInside(ParentExtents)}

\* for (auto it = begin; it != end; ++it) use(*it), at its entry.
IterInit ==
  /\ itgt \in IterTargets
  /\ iter \in {begin_iterator(itgt, o) : o \in {"col", "row"}}
  /\ iyield = <<>>
  /\ ipc = "loop"
  /\ ifault = FALSE

\* No loop is running.
IterIdle ==
  /\ itgt = [kind |-> "bounds", origin |-> Zero, ext |-> Zero]
  /\ iter = [order |-> "col", pt |-> Zero]
  /\ iyield = <<>>
  /\ ipc = "end"
  /\ ifault = FALSE

IterFrame ==
  /\ UNCHANGED itgt
  /\ UNCHANGED <<ownedVars, viewVars, tiledVars, mappedVars, floodVars, boundsVars>>

\* One round of the loop: it != end holds, *it is used, ++it.
IterStep ==
  /\ ipc = "loop"
  /\ ~ifault
  /\ ~iterator_eq_end(itgt, iter)
  /\ Len(iyield) < area(itgt.ext) + MaxOverrun
  /\ iyield' = Append(iyield, iter.pt)
  /\ ifault' = iterator_deref_faults(itgt, iter)
  /\ iter' = iterator_increment(itgt, iter)
  /\ UNCHANGED ipc
  /\ IterFrame

\* it != end fails: the loop is left.
IterStop ==
  /\ ipc = "loop"
  /\ ~ifault
  /\ iterator_eq_end(itgt, iter)
  /\ ipc' = "end"
  /\ UNCHANGED <<iter, iyield, ifault>>
  /\ IterFrame

IterNext == IterStep \/ IterStop

\* ---------------------------------------------------------- specifications
OwnedIdle == OwnedInit /\ nullOnZero = FALSE

\* Owned grids under test; no view and no tiled grid is in use.
InitOwned == OwnedInit /\ ViewInit /\ TiledIdle /\ MappedInit /\ FloodIdle /\ BoundsIdle /\ IterIdle

\* A view over the parent grid under test.
InitView == OwnedIdle /\ ViewInit /\ TiledIdle /\ MappedInit /\ FloodIdle /\ BoundsIdle /\ IterIdle

\* A tiled grid under test.
InitTiled == OwnedIdle /\ ViewInit /\ TiledInit /\ MappedInit /\ FloodIdle /\ BoundsIdle /\ IterIdle

\* Mapped grids under test.
InitMapped == OwnedIdle /\ ViewInit /\ TiledIdle /\ MappedInit /\ FloodIdle /\ BoundsIdle /\ IterIdle

\* Bounds objects under test.
InitBounds == OwnedIdle /\ ViewInit /\ TiledIdle /\ MappedInit /\ FloodIdle /\ BoundsInit /\ IterIdle

\* A program works on owned grids or on mapped grids.
GridsNext ==
  \/ mlast.op = "init" /\ OwnedNext
  \/ last.op = "init" /\ MappedNext

SpecOwned == InitOwned /\ [][OwnedNext]_vars

SpecView == InitView /\ [][ViewNext]_vars

SpecWholeView == InitView /\ [][WholeViewNext]_vars

SpecTiled == InitTiled /\ [][TiledNext]_vars

SpecMapped == InitMapped /\ [][MappedNext]_vars

SpecGrids == InitOwned /\ [][GridsNext]_vars

InitFlood == OwnedIdle /\ ViewInit /\ TiledIdle /\ MappedInit /\ FloodInit /\ BoundsIdle /\ IterIdle

\* The while loop of flood_fill keeps running while it can.
SpecFlood == InitFlood /\ [][FloodNext]_vars /\ WF_vars(FloodNext)

InitFloodCentre ==
  OwnedIdle /\ ViewInit /\ TiledIdle /\ MappedInit /\ FloodCentreInit /\ BoundsIdle /\ IterIdle

SpecFloodCentre == InitFloodCentre /\ [][FloodNext]_vars

InitIter == OwnedIdle /\ ViewInit /\ TiledIdle /\ MappedInit /\ FloodIdle /\ BoundsIdle /\ IterInit

SpecIter == InitIter /\ [][IterNext]_vars

\* A program builds owned grids or mapped grids, writes cells and compares.
CompareNext ==
  \/ mlast.op = "init" /\ (ResizeValue \/ WriteCell \/ Compare)
  \/ last.op = "init" /\ (MappedConstruct \/ MappedWrite \/ MappedCompare)

SpecCompare == InitOwned /\ [][CompareNext]_vars

\* Owned grids are constructed with extents and destroyed.
ConstructNext == ConstructSizedLarge \/ Destroy

SpecConstruct == InitOwned /\ [][ConstructNext]_vars

SpecBounds == InitBounds /\ [][BoundsNext]_vars

SpecGeometry == InitBounds /\ [][GeometryNext]_vars

\* The state a step leads to, as a world.
WorldNext == [grid |-> grid', heap |-> heap', nAlloc |-> nAlloc', badFree |-> badFree']

\* Sanity: the storage of every live grid holds exactly area(extents) cells.
OwnedShape ==
  \A g \in GridIds :
    (Alive(g) /\ grid[g].data # 0) =>
      Len(heap[grid[g].data].cells) = area(grid[g].ext)

\* ------------------------------------------------- claims on owned grids

\* C6: once every grid has been destroyed, every block obtained from the
\* allocator has been deallocated (no block is leaked).
C6_NoLeakAfterDestruction ==
  (\A g \in GridIds : ~Alive(g)) => (\A b \in BlockIds : heap[b].st # "live")

\* C7: exclusive ownership: no block is deallocated twice, no block is held
\* by two live grids, and no live grid points at a deallocated (or never
\* allocated) block.
C7_ExclusiveOwnership ==
  /\ ~badFree
  /\ \A g \in GridIds, h \in GridIds :
       (g # h /\ Alive(g) /\ Alive(h) /\ grid[g].data # 0) => grid[g].data # grid[h].data
  /\ \A g \in GridIds :
       (Alive(g) /\ grid[g].data # 0) => heap[grid[g].data].st = "live"

\* C7 witness: after a destruction that freed a block, the other grid still
\* holds live storage that was handed over by a move or a swap beforehand.
C7_Witness ==
  /\ last.op = "destroy"
  /\ \E b \in BlockIds : heap[b].st = "freed"
  /\ \E g \in GridIds : Alive(g) /\ grid[g].data # 0 /\ grid[g].data < nAlloc

\* C8: a move (construction or assignment) of src into another grid dst
\* gives dst the former extents and pointer of src with the block untouched,
\* and leaves src a valid empty grid (nullptr, (0,0), empty) on which resize,
\* clear, assignment and destruction run without a bad deallocation.
C8_MoveTransfers ==
  [][(last'.op \in {"move_assign", "construct_move"} /\ last'.dst # last'.src) =>
       LET d == last'.dst
           s == last'.src
       IN  /\ grid'[d].ext = grid[s].ext
           /\ grid'[d].data = grid[s].data
           /\ grid[s].data # 0 => heap'[grid[s].data] = heap[grid[s].data]
           /\ grid'[s].data = 0
           /\ grid'[s].ext = Zero
           /\ empty(grid'[s].ext)
           /\ ~destroy(WorldNext, s).badFree
           /\ ~clear(WorldNext, s).badFree
           /\ ~move_assign(WorldNext, s, d).badFree
           /\ move_assign(WorldNext, s, d).grid[s] = grid'[d]
           /\ nAlloc' < MaxBlocks =>
                /\ ~copy_assign(WorldNext, s, d, nullOnZero).badFree
                /\ \A e \in ExtentsDomain :
                     /\ ~resize(WorldNext, s, e, nullOnZero).badFree
                     /\ resize(WorldNext, s, e, nullOnZero).grid[s].ext = e]_vars

\* C8 witness: a move assignment between two grids has handed over a block
\* that holds a non-default cell value.
C8_Witness ==
  /\ last.op = "move_assign"
  /\ last.dst # last.src
  /\ grid[last.dst].data # 0
  /\ \E i \in 1..Len(heap[grid[last.dst].data].cells) :
       heap[grid[last.dst].data].cells[i] = 1
  /\ grid[last.src] = default_grid

\* C9 as stated: resize(E) and resize(E, v) on a grid whose extents already
\* equal E leave the storage pointer and the extents as they were.
C9_ResizeSameAsStated ==
  [][(last'.op \in {"resize", "resize_value"} /\ grid[last'.dst].ext = last'.e) =>
       /\ grid'[last'.dst].data = grid[last'.dst].data
       /\ grid'[last'.dst].ext = grid[last'.dst].ext]_vars

\* C9 amended: the same for every E other than (0,0); resize to (0,0) clears
\* the grid instead (nullptr afterwards), also when its extents are (0,0).
C9_ResizeSameNonZero ==
  [][(last'.op \in {"resize", "resize_value"} /\ grid[last'.dst].ext = last'.e) =>
       IF isZero(last'.e)
         THEN grid'[last'.dst].data = 0 /\ grid'[last'.dst].ext = Zero
         ELSE /\ grid'[last'.dst].data = grid[last'.dst].data
              /\ grid'[last'.dst].ext = grid[last'.dst].ext
              /\ nAlloc' = nAlloc
              /\ \A b \in BlockIds : heap'[b].st = heap[b].st]_vars

\* C9 witness: a resize to the extents the grid already has, with storage.
C9_Witness ==
  /\ last.op = "resize"
  /\ grid[last.dst].ext = last.e
  /\ ~isZero(last.e)
  /\ grid[last.dst].data # 0
  /\ grid[last.dst].data < nAlloc

\* C10: clear(), resize((0,0)) and resize((0,0), v) leave the grid in the
\* default-constructed state with its former block deallocated, and change
\* nothing when the grid already is in that state.
C10_ClearResets ==
  [][(\/ last'.op = "clear"
      \/ (last'.op \in {"resize", "resize_value"} /\ isZero(last'.e))) =>
       LET g == last'.dst
       IN  /\ grid'[g].data = 0
           /\ grid'[g].ext = Zero
           /\ empty(grid'[g].ext)
           /\ grid[g].data # 0 => heap'[grid[g].data].st = "freed"
           /\ grid[g] = default_grid => (grid' = grid /\ heap' = heap)]_vars

\* ------------------------------------------------------- claims on views

\* C1: a view aliases its parent: a write to v[p] is read back as g[p + o],
\* a write to g[q] with q inside the view is read back as v[q - o], and a
\* write to w[p], w a view with origin o2 over v, is read back as g[p + o + o2].
C1_ViewAliasesParent ==
  /\ vlast.op = "write_view" =>
       pcells[grid_slot(Plus(vlast.p, view.origin))] = vlast.x
  /\ (vlast.op = "write_parent" /\ within(view.origin, view.ext, vlast.p)) =>
       pcells[view_slot(view, Minus(vlast.p, view.origin))] = vlast.x
  /\ vlast.op = "write_subview" =>
       pcells[grid_slot(Plus(Plus(vlast.p, view.origin), vlast.sub))] = vlast.x

\* C1 witness: a write through a view of a view, both with a non-zero origin.
C1_Witness ==
  /\ vlast.op = "write_subview"
  /\ X(view.origin) > 0
  /\ Y(vlast.sub) > 0
  /\ vlast.x = 1

\* C2: assigning a grid B of equal extents to the view V, or V.fill(x), sets
\* the parent cell at p + V.origin() to B[p] (resp. x) for every p in [0, e)
\* and leaves every parent cell outside [V.origin(), V.origin() + e) unchanged.
C2_ViewAssignFrame ==
  [][vlast'.op \in {"assign", "fill"} =>
       /\ \A p \in IndexSpace(view.ext) :
            pcells'[grid_slot(Plus(p, view.origin))] =
              IF vlast'.op = "assign"
                THEN vlast'.src[toLinearIndex(view.ext, Plus(p, Zero)) + 1]
                ELSE vlast'.x
       /\ \A q \in IndexSpace(ParentExtents) :
            ~within(view.origin, view.ext, q) =>
              pcells'[grid_slot(q)] = pcells[grid_slot(q)]]_vars

\* ----------------------------------------------- claims on the tiled grid

\* The tile (p.x / TileHeight, p.y / TileWidth) lies in tiles_ and holds data.
OwnerMaterialized(c, ts, p) ==
  /\ X(tile_pt(c, p)) < TileRows(c)
  /\ Y(tile_pt(c, p)) < TileCols(c)
  /\ ts[tile_slot(c, p)].has

\* C3: reading a cell whose owning tile is not materialized returns the
\* default value and materializes nothing (mask() and active() unchanged),
\* through operator[] and through iteration, on const and non-const grids.
C3_ReadDoesNotMaterialize ==
  [][/\ (/\ tlast'.op \in {"read_const", "read"}
         /\ ~tfault'
         /\ ~OwnerMaterialized(tcfg, tiles, tlast'.p)) =>
          /\ tlast'.x = tdefault
          /\ mask(tcfg, tiles') = mask(tcfg, tiles)
          /\ active(tcfg, tiles') = active(tcfg, tiles)
     /\ (tlast'.op \in {"iterate", "iterate_const"} /\ ~tfault') =>
          /\ mask(tcfg, tiles') = mask(tcfg, tiles)
          /\ active(tcfg, tiles') = active(tcfg, tiles)
          /\ (active(tcfg, tiles) = 0 => tlast'.vals = {tdefault})]_vars

\* C4: a write to cell p that runs without undefined behaviour raises
\* active() by one exactly when p's owning tile was not materialized, after
\* it p reads as the written value and every other cell reads as before.
C4_WriteMaterializesOwner ==
  [][(tlast'.op = "write" /\ ~tfault') =>
       /\ active(tcfg, tiles') =
            active(tcfg, tiles) + (IF OwnerMaterialized(tcfg, tiles, tlast'.p) THEN 0 ELSE 1)
       /\ access_impl_const(tcfg, tdefault, tiles', Plus(tlast'.p, Zero)) =
            [value |-> tlast'.x, fault |-> FALSE]
       /\ \A q \in TiledCells \ {tlast'.p} :
            access_impl_const(tcfg, tdefault, tiles', Plus(q, Zero)) =
              access_impl_const(tcfg, tdefault, tiles, Plus(q, Zero))]_vars

\* C5: mask()[t] is true exactly for the materialized tiles, active() is the
\* number of true entries of mask(), no mask entry goes from true to false
\* and active() never decreases.
C5_MaskMonotone ==
  [][/\ \A k \in TileSlots(tcfg) : mask(tcfg, tiles')[k] <=> (k \in made')
     /\ active(tcfg, tiles') = Cardinality({k \in TileSlots(tcfg) : mask(tcfg, tiles')[k]})
     /\ \A k \in TileSlots(tcfg) : mask(tcfg, tiles)[k] => mask(tcfg, tiles')[k]
     /\ active(tcfg, tiles') >= active(tcfg, tiles)]_vars

\* ---------------------------------------------- claims on copies and swaps

\* C11: after copy-assigning or copy-constructing the owned grid a into
\* another owned grid b, b == a holds, a is unchanged, the two grids do not
\* share a block, and copying an empty a leaves b empty with a null pointer.
C11_CopyYieldsEqualGrid ==
  [][(last'.op \in {"copy_assign", "construct_copy"} /\ last'.dst # last'.src) =>
       LET b == last'.dst
           a == last'.src
       IN  /\ grid_eq(WorldNext, b, a)
           /\ grid'[b].ext = grid[a].ext
           /\ grid'[a] = grid[a]
           /\ range_cells(WorldNext, a) = range_cells(World, a)
           /\ grid'[a].data # 0 => grid'[b].data # grid'[a].data
           /\ area(grid[a].ext) > 0 => grid'[b].data # 0
           /\ empty(grid[a].ext) => (grid'[b].data = 0 /\ empty(grid'[b].ext))]_vars

\* C12: copy-constructing or copy-assigning a MappedGrid gives the
\* destination the data pointer and the extents of the source, allocates and
\* deallocates nothing, leaves the mapped memory as it was, and afterwards a
\* write through either grid is read back through the other.
C12_MappedCopyRebinds ==
  [][mlast'.op \in {"copy_assign", "construct_copy"} =>
       LET d == mlast'.dst
           s == mlast'.src
           M == [grid |-> mgrid', mem |-> mem']
       IN  /\ mgrid'[d].data = mgrid[s].data
           /\ mgrid'[d].ext = mgrid[s].ext
           /\ mgrid'[s] = mgrid[s] \/ s = d
           /\ mem' = mem
           /\ heap' = heap /\ nAlloc' = nAlloc
           /\ \A pt \in IndexSpace(mgrid'[d].ext), v \in Values :
                /\ mapped_read(mapped_write(M, d, pt, v), s, pt) = v
                /\ mapped_read(mapped_write(M, s, pt, v), d, pt) = v]_vars

\* C12 witness: a copy assignment has rebound a mapped grid from one buffer
\* to the other one, which holds a written cell.
C12_Witness ==
  /\ mlast.op = "copy_assign"
  /\ mlast.dst # mlast.src
  /\ mlast.pre.data # mgrid[mlast.dst].data
  /\ mlast.pre.ext # mgrid[mlast.dst].ext
  /\ mgrid[mlast.dst].data = mgrid[mlast.src].data
  /\ area(mgrid[mlast.dst].ext) > 0
  /\ mem[mgrid[mlast.dst].data][1] = 1

\* C13: a.swap(b) on two owned grids, and on two mapped grids, exchanges the
\* data pointers and the extents, allocates and frees nothing, leaves the
\* cells alone, and a second swap restores the state before the first.
C13_SwapExchanges ==
  [][/\ last'.op = "swap" =>
          LET a == last'.dst
              b == last'.src
          IN  /\ grid'[a].data = grid[b].data /\ grid'[a].ext = grid[b].ext
              /\ grid'[b].data = grid[a].data /\ grid'[b].ext = grid[a].ext
              /\ heap' = heap /\ nAlloc' = nAlloc /\ badFree' = badFree
              /\ swap(WorldNext, a, b) = World
     /\ mlast'.op = "swap" =>
          LET a == mlast'.dst
              b == mlast'.src
          IN  /\ mgrid'[a].data = mgrid[b].data /\ mgrid'[a].ext = mgrid[b].ext
              /\ mgrid'[b].data = mgrid[a].data /\ mgrid'[b].ext = mgrid[a].ext
              /\ mem' = mem
              /\ heap' = heap /\ nAlloc' = nAlloc
              /\ mapped_swap([grid |-> mgrid', mem |-> mem'], a, b) = MappedWorld]_vars

\* C13 witness: two owned grids of different extents, both with storage,
\* have just been swapped.
C13_Witness ==
  /\ last.op = "swap"
  /\ last.dst # last.src
  /\ grid[last.dst].data # 0
  /\ grid[last.src].data # 0
  /\ grid[last.dst].ext # grid[last.src].ext
  /\ area(grid[last.dst].ext) > 0

\* ------------------------------------------------- claims on within and []

\* C17: if g.within(p) holds then g[p] addresses a cell of g's own region:
\* for the owning grid g a storage slot in [0, extents.area()), and for a
\* view with bounds (o, e) a parent cell in [o, o + e), so a write to v[p]
\* changes no parent cell outside the view.
C17_WithinImpliesInRegion ==
  [][/\ \A p \in IndexSpace(ParentExtents) :
          within(Zero, ParentExtents, p) => grid_slot(p) \in ParentSlots
     /\ vlast'.op = "write_within" =>
          /\ ~vfault'
          /\ within(view.origin, view.ext, Plus(vlast'.p, view.origin))
          /\ \A q \in IndexSpace(ParentExtents) :
               ~within(view.origin, view.ext, q) =>
                 pcells'[grid_slot(q)] = pcells[grid_slot(q)]]_vars

\* C20: for a bounds object b of any of the four variants and a point p,
\* b.within(p) is true exactly when origin.x <= p.x < origin.x + extents.x
\* and origin.y <= p.y < origin.y + extents.y.
C20_WithinIsHalfOpenBox ==
  bres.op = "within" =>
    (bres.value <=>
       /\ X(bounds_origin(bnd)) <= X(bres.p)
       /\ X(bres.p) < X(bounds_origin(bnd)) + X(bounds_extents(bnd))
       /\ Y(bounds_origin(bnd)) <= Y(bres.p)
       /\ Y(bres.p) < Y(bounds_origin(bnd)) + Y(bounds_extents(bnd)))

\* C20 witness: within rejected a point that lies left of the far corner in
\* x but not in y, for a bounds object with a fixed, negative origin.
C20_Witness ==
  /\ bres.op = "within"
  /\ ~bres.value
  /\ bnd.kind = "FixedOriginExtentsBounds"
  /\ X(bounds_origin(bnd)) < 0
  /\ all_ge(bres.p, bounds_origin(bnd))
  /\ X(bres.p) < X(bounds_origin(bnd)) + X(bounds_extents(bnd))
  /\ Y(bres.p) >= Y(bounds_origin(bnd)) + Y(bounds_extents(bnd))

\* ------------------------------------------------------------------ C14
\* Chebyshev distance of two positions.
Chebyshev(a, b) ==
  LET dx == IF X(a) < X(b) THEN X(b) - X(a) ELSE X(a) - X(b)
      dy == IF Y(a) < Y(b) THEN Y(b) - Y(a) ELSE Y(a) - Y(b)
  IN IF dx < dy THEN dy ELSE dx

\* Chebyshev distance of p to the nearest seeded cell of the scenario.
CentreDistance(p) ==
  CHOOSE d \in 0..CentreExtent :
    /\ \E c \in CentreCells : Chebyshev(p, c) = d
    /\ \A c \in CentreCells : Chebyshev(p, c) >= d

\* C14: once flood_fill has returned on the 10 x 10 grid seeded with 10 at its
\* four centre cells, every cell holds max(1, 10 - d), d the Chebyshev distance
\* to the nearest seeded cell; the four corners hold 6.
C14_CentreFillIsDistance ==
  fpc = "done" =>
    /\ ~ffault
    /\ \A p \in IndexSpace(fext) :
         fcells[toLinearIndex(fext, p)] =
           (IF CentreValue - CentreDistance(p) > 1
              THEN CentreValue - CentreDistance(p) ELSE 1)
    /\ \A p \in {0, CentreExtent - 1} \X {0, CentreExtent - 1} :
         fcells[toLinearIndex(fext, p)] = 6

\* The scenario has run to its end and a corner holds 6.
C14_Witness ==
  /\ fpc = "done"
  /\ fext = <<CentreExtent, CentreExtent>>
  /\ fwrites[toLinearIndex(fext, Zero)] = 1
  /\ fcells[toLinearIndex(fext, Zero)] = 6

\* ------------------------------------------------------------------ C18
\* C18: every seed popped by flood_fill has a value greater than or equal to
\* the value of every seed in the queue it is popped from, whether the seed
\* came from the initial seeds or was pushed during an expansion.
C18_MaxFirst ==
  [][(fpc = "loop" /\ fpc' = "loop" /\ ~ffault /\ seeds # EmptyBag) =>
       /\ \E s \in BagToSet(seeds) :
            s.value = flast'.value /\ s.position = flast'.position
       /\ \A s \in BagToSet(seeds) : s.value <= flast'.value]_vars

\* An initial seed has been popped after an expansion had pushed seeds of a
\* smaller value, which are still waiting in the queue.
C18_Witness ==
  /\ fpc = "loop"
  /\ ~ffault
  /\ flast.value = FloodMaxValue
  /\ \E i \in DOMAIN fwrites : fwrites[i] = 1 /\ fcells[i] < FloodMaxValue
  /\ \E s \in BagToSet(seeds) : s.value < flast.value
  /\ \E s \in BagToSet(seeds) : s.value = flast.value

\* ------------------------------------------------------------------ C16
\* C16: flood_fill on a view with bounds (o, e) reads and writes view-local
\* indices only, so no access leaves the storage and every cell of the parent
\* outside [o, o + e) keeps the value it had at the call.
C16_FloodStaysInsideView ==
  /\ ~ffault
  /\ \A p \in IndexSpace(fext) :
       ~within(fbounds.origin, fbounds.ext, p) =>
         /\ fwrites[toLinearIndex(fext, p)] = 0
         /\ fcells[toLinearIndex(fext, p)] = fstart[toLinearIndex(fext, p)]

\* ------------------------------------------------------------------ C15
\* The seeds waiting in the queue plus twice the cells that still hold 0: a
\* natural number, so a run in which every iteration of the while loop lowers
\* it has finitely many iterations.
FloodMeasure(q, cells) ==
  BagCardinality(q) + 2 * Cardinality({i \in DOMAIN cells : cells[i] = 0})

\* No cell has been written twice and no cell that was non-zero at the call
\* has been written.
WrittenOnce ==
  \A i \in DOMAIN fcells :
    /\ fwrites[i] <= 1
    /\ fstart[i] # 0 => (fwrites[i] = 0 /\ fcells[i] = fstart[i])

\* C15: with a validator that accepts only cells whose value is 0 and an
\* updater that never returns 0, flood_fill terminates: every iteration of the
\* while loop runs to its end inside the storage and lowers FloodMeasure, so
\* the queue becomes empty after finitely many iterations; and all along the
\* run no cell is written twice and no cell that was non-zero at the call is
\* overwritten.
C15_ZeroValidatorTerminates ==
  /\ [](fcfg.validator = "zero" => (~ffault /\ WrittenOnce))
  /\ [][(fcfg.validator = "zero" /\ fpc = "loop" /\ fpc' = "loop") =>
          FloodMeasure(seeds', fcells') < FloodMeasure(seeds, fcells)]_vars

\* ------------------------------------------------------------------ C19
\* C19: with an always-true validator and an initial seed inside the grid,
\* the queue is non-empty after every pop and its expansion, so flood_fill
\* never returns.
C19_TrueValidatorNeverEmpties ==
  /\ []((fcfg.validator = "true" /\ flast.seeded) => (~ffault /\ fpc # "done"))
  /\ [][(fcfg.validator = "true" /\ flast.seeded /\ fpc = "loop" /\ fpc' = "loop") =>
          seeds' # EmptyBag]_vars

\* ------------------------------------------------------------------ C21
\* The k-th index (from 1) of the box at origin with the given extents, with
\* x varying fastest ("col") or y varying fastest ("row").
NthIndex(order, origin, extents, k) ==
  IF order = "col"
    THEN <<X(origin) + ((k - 1) % X(extents)), Y(origin) + ((k - 1) \div X(extents))>>
    ELSE <<X(origin) + ((k - 1) \div Y(extents)), Y(origin) + ((k - 1) % Y(extents))>>

\* C21: over bounds with both extents positive, the column-major range yields
\* the indices of [origin, origin + extents) once each with x varying fastest,
\* the row-major range with y varying fastest; every index yielded is within
\* the bounds; and the iterator equals the end sentinel after exactly area
\* increments, not before.
C21_BoundsRangeEnumerates ==
  (itgt.kind = "bounds" /\ X(itgt.ext) > 0 /\ Y(itgt.ext) > 0 /\ ipc = "loop") =>
    /\ Len(iyield) <= area(itgt.ext)
    /\ iterator_eq_end(itgt, iter) <=> (Len(iyield) = area(itgt.ext))
    /\ \A k \in 1..Len(iyield) :
         /\ iyield[k] = NthIndex(iter.order, itgt.origin, itgt.ext, k)
         /\ within(itgt.origin, itgt.ext, iyield[k])

\* A column-major loop over bounds of more than one row and column, away from
\* (0,0), has yielded every index and has left.
C21_Witness ==
  /\ itgt.kind = "bounds"
  /\ iter.order = "col"
  /\ itgt.origin # Zero
  /\ X(itgt.origin) # 0
  /\ X(itgt.ext) > 1
  /\ Y(itgt.ext) > 1
  /\ ipc = "end"
  /\ Len(iyield) = area(itgt.ext)

\* ------------------------------------------------------------------ C22
\* C22: over a grid or view with both extents positive, a ColViewIterator or
\* RowViewIterator started at (0,0) dereferences the indices of [0, extents)
\* once each, inside the storage, and equals ViewIteratorEnd, and the iterator
\* built with the end tag, after exactly area increments and not before.
C22_ViewIteratorEnumerates ==
  (itgt.kind = "view" /\ X(itgt.ext) > 0 /\ Y(itgt.ext) > 0) =>
    /\ ~ifault
    /\ Len(iyield) <= area(itgt.ext)
    /\ iterator_eq_end(itgt, iter) <=> (Len(iyield) = area(itgt.ext))
    /\ view_iterator_eq(iter, view_end_iterator(iter.order, itgt.ext))
         <=> (Len(iyield) = area(itgt.ext))
    /\ \A k \in 1..Len(iyield) :
         /\ iyield[k] = NthIndex(iter.order, Zero, itgt.ext, k)
         /\ iyield[k] \in IndexSpace(itgt.ext)
    /\ ipc = "end" => Len(iyield) = area(itgt.ext)

\* A row-major loop over a view of more than one row and column, away from
\* (0,0), has dereferenced every index and has left.
C22_Witness ==
  /\ itgt.kind = "view"
  /\ iter.order = "row"
  /\ X(itgt.origin) > 0
  /\ X(itgt.ext) > 1
  /\ Y(itgt.ext) > 1
  /\ ipc = "end"
  /\ Len(iyield) = area(itgt.ext)

\* ------------------------------------------------------------------ C30
\* C30: over bounds, a grid or a view whose area is 0, (0, n) and (n, 0)
\* included, a loop with the column-major or row-major iterator terminates
\* without a round: its only step is the exit, no index is yielded and no cell
\* is dereferenced.
C30_ZeroAreaYieldsNothing ==
  [][(area(itgt.ext) = 0) =>
       /\ ipc' = "end"
       /\ iyield' = <<>>
       /\ ~ifault']_vars

\* ------------------------------------------------------------------ C23
\* C23: a == b holds exactly when the extents of a and b are equal and every
\* cell of a equals the cell of b at the same index; a != b is the negation of
\* a == b; grids of different extents are unequal whatever their cells.
C23_EqualityIsCellWise ==
  /\ last.op = "compare" =>
       /\ last.eq <=>
            /\ grid[last.dst].ext = grid[last.src].ext
            /\ \A p \in IndexSpace(grid[last.dst].ext) :
                 read_cell(World, last.dst, p) = read_cell(World, last.src, p)
       /\ last.ne <=> ~last.eq
       /\ grid[last.dst].ext # grid[last.src].ext => last.ne
  /\ mlast.op = "compare" =>
       /\ mlast.eq <=>
            /\ mgrid[mlast.dst].ext = mgrid[mlast.src].ext
            /\ \A p \in IndexSpace(mgrid[mlast.dst].ext) :
                 mapped_read(MappedWorld, mlast.dst, p) = mapped_read(MappedWorld, mlast.src, p)
       /\ mlast.ne <=> ~mlast.eq
       /\ mgrid[mlast.dst].ext # mgrid[mlast.src].ext => mlast.ne

\* Two owned grids of different extents whose cells (none) agree have compared
\* unequal.
C23_Witness ==
  /\ last.op = "compare"
  /\ grid[last.dst].ext # grid[last.src].ext
  /\ area(grid[last.dst].ext) = area(grid[last.src].ext)
  /\ last.ne

\* ------------------------------------------------------------------ C24
\* C24: an owned grid freshly constructed with extents E has extents E, and
\* every index p of [0, E) maps to the linear slot p.x + E.x * p.y, which lies
\* in [0, area(E)), inside the storage allocated, and differs from the slot of
\* every other index.
C24_FreshGridSlots ==
  last.op = "construct_sized" =>
    LET g == last.dst
        E == grid[g].ext
    IN /\ E = last.e
       /\ \A p \in IndexSpace(E) :
            /\ toLinearIndex(E, p) = X(p) + (X(E) * Y(p))
            /\ toLinearIndex(E, p) \in 0..(area(E) - 1)
            /\ grid[g].data # 0
            /\ toLinearIndex(E, p) + 1 \in DOMAIN heap[grid[g].data].cells
            /\ \A q \in IndexSpace(E) :
                 toLinearIndex(E, q) = toLinearIndex(E, p) => q = p

\* A grid of more than one row and more than one column has been constructed.
C24_Witness ==
  /\ last.op = "construct_sized"
  /\ X(grid[last.dst].ext) > 1
  /\ Y(grid[last.dst].ext) > 1
  /\ X(grid[last.dst].ext) # Y(grid[last.dst].ext)

\* C25 (as stated): every comparison on Coordinates is component-wise; in
\* particular a < b holds exactly when a.x < b.x and a.y < b.y.
C25_LessIsComponentWise ==
  bres.op = "compare" =>
    /\ bres.value <=> (X(bres.p) < X(bres.q) /\ Y(bres.p) < Y(bres.q))
    /\ bres.eq <=> (X(bres.p) = X(bres.q) /\ Y(bres.p) = Y(bres.q))
    /\ bres.gt <=> (X(bres.p) > X(bres.q) /\ Y(bres.p) > Y(bres.q))
    /\ bres.ge <=> (X(bres.p) >= X(bres.q) /\ Y(bres.p) >= Y(bres.q))
    /\ bres.lt <=> (X(bres.p) < X(bres.q) /\ Y(bres.p) < Y(bres.q))
    /\ bres.le <=> (X(bres.p) <= X(bres.q) /\ Y(bres.p) <= Y(bres.q))

\* C25 (amended): ==, all_gt, all_ge, all_lt and all_le are component-wise,
\* and a < b is the order of the pairs (x, y): a.x < b.x, or a.x = b.x and
\* a.y < b.y.
C25_LessIsPairOrder ==
  bres.op = "compare" =>
    /\ bres.value <=>
         (X(bres.p) < X(bres.q) \/ (X(bres.p) = X(bres.q) /\ Y(bres.p) < Y(bres.q)))
    /\ bres.eq <=> (X(bres.p) = X(bres.q) /\ Y(bres.p) = Y(bres.q))
    /\ bres.gt <=> (X(bres.p) > X(bres.q) /\ Y(bres.p) > Y(bres.q))
    /\ bres.ge <=> (X(bres.p) >= X(bres.q) /\ Y(bres.p) >= Y(bres.q))
    /\ bres.lt <=> (X(bres.p) < X(bres.q) /\ Y(bres.p) < Y(bres.q))
    /\ bres.le <=> (X(bres.p) <= X(bres.q) /\ Y(bres.p) <= Y(bres.q))

\* C25 witness: a < b held for a point a that is left of b but not below it.
C25_Witness ==
  /\ bres.op = "compare"
  /\ bres.value
  /\ X(bres.p) < X(bres.q)
  /\ Y(bres.p) > Y(bres.q)
  /\ ~bres.lt

\* C28 (as stated): a.overlaps(b) is true whenever some point is within both
\* rectangles or the rectangles are adjacent (they touch along an edge or at
\* a corner), and false whenever a gap of at least one index separates them
\* along some axis. Stated for rectangles of positive extents.
C28_OverlapsIffNoGap ==
  (bres.op = "overlaps" /\ area(bounds_extents(bnd)) > 0
                        /\ area(bounds_extents(bres.other)) > 0) =>
    LET ao == bounds_origin(bnd)
        ac == Plus(bounds_origin(bnd), bounds_extents(bnd))
        bo == bounds_origin(bres.other)
        bc == Plus(bounds_origin(bres.other), bounds_extents(bres.other))
        gap_x == X(ac) < X(bo) \/ X(bc) < X(ao)
        gap_y == Y(ac) < Y(bo) \/ Y(bc) < Y(ao)
    IN bres.value <=> (~gap_x /\ ~gap_y)

\* C27: for every configuration the class accepts and every cell index p of
\* the grid, an access to p finds the owning tile index
\* (p.x / TileHeight, p.y / TileWidth) in [0, TileRows) x [0, TileCols), and
\* the tile-relative index p - tile.origin in [0, TileHeight) x [0, TileWidth).
C27_TileIndexInRange ==
  [][(tlast'.op \in {"read", "write"}) =>
       LET p == tlast'.p
           t == tile_pt(tcfg, p)
       IN  /\ X(t) \in 0..(TileRows(tcfg) - 1)
           /\ Y(t) \in 0..(TileCols(tcfg) - 1)
           /\ LET tile == materialize(tcfg, tdefault, TiledState, p).tiles[tile_slot(tcfg, p)]
                   rel  == Minus(p, tile.origin)
               IN  /\ X(rel) \in 0..(tcfg.TH - 1)
                   /\ Y(rel) \in 0..(tcfg.TW - 1)]_vars

\* C29: the argument-less view() of a grid or view g covers all of g: for
\* every p in [0, g.extents()), g.view()[p] is the cell g[p], so a write
\* through g.view()[p] changes the cell of g[p] and no other, also when g is
\* a view whose origin is not (0,0).
C29_WholeViewIsSameCells ==
  [][(vlast'.op = "write_whole") =>
       /\ ~vfault'
       /\ pcells' = [pcells EXCEPT ![view_slot(view, vlast'.p)] = vlast'.x]]_vars

\* C26: for two bounds a and b that overlap, intersection(a, b) and
\* intersection(b, a) have the same origin and extents, the rectangle they
\* describe contains exactly the points that are within a and within b, and
\* when one of a and b contains the other the result equals the contained
\* bounds.
C26_IntersectionIsCommonPoints ==
  (bres.op = "intersection" /\ bres.value) =>
    LET a == bnd
        b == bres.other
        contains(u, w) ==
          /\ all_ge(bounds_origin(w), bounds_origin(u))
          /\ all_le(Plus(bounds_origin(w), bounds_extents(w)),
                    Plus(bounds_origin(u), bounds_extents(u)))
    IN  /\ bounds_eq(bres.ab, bres.ba)
        /\ \A p \in PointDomain :
             bounds_within(bres.ab, p) <=> (bounds_within(a, p) /\ bounds_within(b, p))
        /\ contains(a, b) => bounds_eq(bres.ab, b)
        /\ contains(b, a) => bounds_eq(bres.ab, a)

\* C26 witness: the two bounds overlap in part: the intersection is not
\* empty and is neither of the two.
C26_Witness ==
  /\ bres.op = "intersection"
  /\ bres.value
  /\ area(bounds_extents(bres.ab)) > 0
  /\ ~bounds_eq(bres.ab, bnd)
  /\ ~bounds_eq(bres.ab, bres.other)
  /\ bounds_origin(bnd) # bounds_origin(bres.other)

====
